---- MODULE Spec2Model ----
(***************************************************************************)
(* A state-machine model of the ZIO pipeline of module/zfs/zio.c: the      *)
(* parent/child DAG with its per-(child type, wait type) counters, the     *)
(* stage dispatcher, READY/DONE completion, in-place retry, reexecution,   *)
(* and pool suspend/resume.                                                *)
(*                                                                         *)
(* Threads run with a call stack of frames (zio_execute, zio_wait,         *)
(* zio_reexecute); each stage handler is one atomic step, which is the     *)
(* granularity at which the code synchronises (every access to a parent's  *)
(* counters is made under that parent's io_lock).                          *)
(***************************************************************************)
EXTENDS Integers, Sequences, FiniteSets, TLC

\* ----------------------------------------------------------------- bounds
\* Number of zios a caller may create (each has a slot for a zio the pipeline
\* creates on its behalf, and each of the two a slot for a vdev child).
MaxZio == 2
\* Number of errors the environment (device, allocator) may inject.
MaxFaults == 2
\* Number of writes callers issue.
MaxWrites == 1

\* ------------------------------------------------------------ identifiers
\* A thread that submits zios, the thread that resumes a suspended pool, and
\* a worker of each kind of taskq: the issue taskq of writes, the issue
\* taskqs of the other types, and the interrupt taskqs.
Threads == {"caller", "admin", "issue", "wissue", "intr"}
NoThread == "none"
TaskqOf(t) == CASE t \in {"issue", "wissue"} -> "ISSUE"
                [] t = "intr" -> "INTERRUPT"
                [] OTHER -> "NONE"

CallerIds == 1..MaxZio
\* The zio a dedup write creates (the read that verifies a match, then the
\* child that writes the block) lives in a slot of its own.
InternalOf(z) == z + MaxZio
InternalIds == (MaxZio + 1)..(2 * MaxZio)
\* The vdev child a zio issues in VDEV_IO_START lives in its own slot.
VdevOf(z) == z + 2 * MaxZio
VdevIds == (2 * MaxZio + 1)..(4 * MaxZio)
\* zio_suspend() creates spa_suspend_zio_root on demand.
SuspendIds == {4 * MaxZio + 1, 4 * MaxZio + 2}
\* spa->spa_async_zio_root[], the "Godfather" of parentless async zios.
spa_async_zio_root == 4 * MaxZio + 3
AllIds == 1..(4 * MaxZio + 3)

\* -------------------------------------------------------------- constants
\* Error codes; "0" is success.
E0 == "0"
zio_error_rank == <<"0", "ENXIO", "ECKSUM", "EIO">>
Errors == {"0", "ENXIO", "ECKSUM", "EIO", "ENOSPC", "EINTR", "EAGAIN", "ENOENT"}

\* enum zio_child, in increasing order.
ChildOrder == <<"VDEV", "GANG", "DDT", "LOGICAL">>
ChildTypes == {ChildOrder[i] : i \in 1..Len(ChildOrder)}
ChildRank(c) == CHOOSE i \in 1..Len(ChildOrder) : ChildOrder[i] = c
ZIO_CHILD_ALL_BITS == ChildTypes
WaitTypes == {"READY", "DONE"}

\* The stage handlers in pipeline order; position 1 is ZIO_STAGE_OPEN.
zio_pipeline == <<"OPEN", "READ_BP_INIT", "WRITE_BP_INIT", "FREE_BP_INIT",
    "ISSUE_ASYNC", "WRITE_COMPRESS", "ENCRYPT", "CHECKSUM_GENERATE",
    "NOP_WRITE", "BRT_FREE", "DDT_READ_START", "DDT_READ_DONE", "DDT_WRITE",
    "DDT_FREE", "GANG_ASSEMBLE", "GANG_ISSUE", "DVA_THROTTLE", "DVA_ALLOCATE",
    "DVA_FREE", "DVA_CLAIM", "READY", "VDEV_IO_START", "VDEV_IO_DONE",
    "VDEV_IO_ASSESS", "CHECKSUM_VERIFY", "DIO_CHECKSUM_VERIFY", "DONE">>
Stage(name) == CHOOSE i \in 1..Len(zio_pipeline) : zio_pipeline[i] = name
ZIO_STAGE_OPEN == Stage("OPEN")
ZIO_STAGE_ISSUE_ASYNC == Stage("ISSUE_ASYNC")
ZIO_STAGE_WRITE_COMPRESS == Stage("WRITE_COMPRESS")
ZIO_STAGE_DDT_WRITE == Stage("DDT_WRITE")
ZIO_STAGE_DVA_THROTTLE == Stage("DVA_THROTTLE")
ZIO_STAGE_DVA_ALLOCATE == Stage("DVA_ALLOCATE")
ZIO_STAGE_READY == Stage("READY")
ZIO_STAGE_VDEV_IO_START == Stage("VDEV_IO_START")
ZIO_STAGE_VDEV_IO_DONE == Stage("VDEV_IO_DONE")
ZIO_STAGE_VDEV_IO_ASSESS == Stage("VDEV_IO_ASSESS")
ZIO_STAGE_DIO_CHECKSUM_VERIFY == Stage("DIO_CHECKSUM_VERIFY")
ZIO_STAGE_DONE == Stage("DONE")

\* Pipelines (restricted to the stages whose handlers touch modelled state).
ZIO_VDEV_IO_STAGES ==
    {ZIO_STAGE_VDEV_IO_START, ZIO_STAGE_VDEV_IO_DONE, ZIO_STAGE_VDEV_IO_ASSESS}
ZIO_INTERLOCK_PIPELINE == {ZIO_STAGE_READY, ZIO_STAGE_DONE}
ZIO_ROOT_PIPELINE == {ZIO_STAGE_DONE}
ZIO_READ_PIPELINE == ZIO_INTERLOCK_PIPELINE \cup ZIO_VDEV_IO_STAGES
ZIO_VDEV_CHILD_PIPELINE == ZIO_VDEV_IO_STAGES \cup {ZIO_STAGE_DONE}
ZIO_WRITE_COMMON_STAGES == ZIO_INTERLOCK_PIPELINE \cup ZIO_VDEV_IO_STAGES \cup
    {ZIO_STAGE_ISSUE_ASYNC}
ZIO_WRITE_PIPELINE == ZIO_WRITE_COMMON_STAGES \cup
    {ZIO_STAGE_WRITE_COMPRESS, ZIO_STAGE_DVA_THROTTLE, ZIO_STAGE_DVA_ALLOCATE}
ZIO_DIRECT_WRITE_PIPELINE == ZIO_WRITE_PIPELINE \ {ZIO_STAGE_ISSUE_ASYNC}
ZIO_DDT_CHILD_WRITE_PIPELINE == ZIO_WRITE_COMMON_STAGES \cup
    {ZIO_STAGE_DVA_THROTTLE, ZIO_STAGE_DVA_ALLOCATE}
ZIO_DDT_WRITE_PIPELINE == ZIO_INTERLOCK_PIPELINE \cup
    {ZIO_STAGE_ISSUE_ASYNC, ZIO_STAGE_WRITE_COMPRESS, ZIO_STAGE_DDT_WRITE}
ZIO_BLOCKING_STAGES == {ZIO_STAGE_DVA_ALLOCATE, ZIO_STAGE_VDEV_IO_START}

IO_IS_ALLOCATING(Z) == ZIO_STAGE_DVA_ALLOCATE \in Z.io_orig_pipeline

\* ------------------------------------------------------------------ state
VARIABLES
    zio,                    \* id -> zio_t
    taskq,                  \* set of <<queue, function, id>> awaiting a worker
    stack,                  \* thread -> call stack, innermost frame first
    device,                 \* leaf vdev zios in flight in the device
    spa_suspended,          \* spa->spa_suspended != ZIO_SUSPEND_NONE
    spa_suspend_zio_root,   \* <<>> or <<id>>
    spa_failmode,           \* the pool's failmode property
    spa_deadman_failmode,   \* zfs_deadman_failmode as the pool reads it
    ddt,                    \* checksum -> the dedup table entry of the block
    metaslab,               \* class -> its allocator: throttle queue, slots
    faults,                 \* errors injected so far
    wait_result,            \* id -> what zio_wait() last returned for it
    created,                \* number of zios callers have created
    call                    \* a direct call of zio_worst_error(): <<>> or
                            \* its arguments and results; or a gang leader
                            \* with its gang tree

pipeline_vars == <<zio, taskq, stack, device, spa_suspended,
                   spa_suspend_zio_root, spa_failmode, spa_deadman_failmode,
                   ddt, metaslab, faults, wait_result, created>>
vars == <<pipeline_vars, call>>

\* A slot of the zio cache holding no zio.
NoZio == [alive |-> FALSE]

\* An entry of the dedup table: the number of DVAs it holds, that number
\* before the write in flight extended it, the data the DVAs hold, and the
\* lead write in flight (<<>> or <<id>>).
NoEntry == [dde_phys |-> 0, dde_orig_phys |-> 0, abd |-> "none",
            dde_lead_zio |-> <<>>]
NoDdt == [ck \in {"fletcher4", "sha256"} |-> NoEntry]

\* ---------------------------------------------------------------- helpers
Min(S) == CHOOSE x \in S : \A y \in S : x <= y
InList(l, x) == \E i \in 1..Len(l) : l[i] = x
list_insert_head(l, x) == <<x>> \o l
list_remove(l, x) == SelectSeq(l, LAMBDA y : y # x)
list_head(l) == IF l = <<>> THEN <<>> ELSE <<l[1]>>
\* The element after x, as <<>> or <<id>>.
list_next(l, x) ==
    IF \E i \in 1..(Len(l) - 1) : l[i] = x
    THEN <<l[(CHOOSE i \in 1..(Len(l) - 1) : l[i] = x) + 1]>>
    ELSE <<>>

\* The index of e in zio_error_rank[], counted from 0; the table's length
\* when e is not in the table.
ErrorRank(e) ==
    IF \E i \in 1..Len(zio_error_rank) : zio_error_rank[i] = e
    THEN (CHOOSE i \in 1..Len(zio_error_rank) : zio_error_rank[i] = e) - 1
    ELSE Len(zio_error_rank)

\* The comparison with ">=" for ">": ties go to the first argument.
zio_worst_error_ge(e1, e2) == IF ErrorRank(e1) >= ErrorRank(e2) THEN e1 ELSE e2

zio_worst_error(e1, e2) == IF ErrorRank(e1) > ErrorRank(e2) THEN e1 ELSE e2

\* ------------------------------------------------------------ the zio DAG
\* io_state[] as zio_create() and zio_reexecute() compute it.
InitialState(stage, pipeline) ==
    [w \in WaitTypes |->
        IF w = "READY"
        THEN stage >= ZIO_STAGE_READY \/ ZIO_STAGE_READY \notin pipeline
        ELSE stage >= ZIO_STAGE_DONE]

\* zio_create() leaves io_prop zeroed and io_metaslab_class NULL.
Checksums == {"fletcher4", "sha256"}
NoProp == [zp_dedup |-> FALSE, zp_dedup_verify |-> FALSE,
           zp_checksum |-> "fletcher4", zp_direct_write |-> FALSE]
NoData == "none"
Classes == {"special", "normal"}
NoClass == "NULL"

NoChildren == [c \in ChildTypes |-> [w \in WaitTypes |-> 0]]
NoChildError == [c \in ChildTypes |-> E0]

\* The counters bumped whatever the child's state.
zio_add_child_impl_always(Z, pio, cio) ==
    [Z EXCEPT
        ![pio].io_children[Z[cio].io_child_type] =
            [w \in WaitTypes |-> @[w] + 1],
        ![pio].io_child_list = list_insert_head(@, cio),
        ![cio].io_parent_list = list_insert_head(@, pio),
        ![pio].notified_by[cio] = [w \in WaitTypes |-> 0],
        ![pio].linked_run[cio] =
            IF Z[cio].io_state["DONE"] THEN Z[cio].runs ELSE Z[cio].runs - 1]

\* Both counters of pio are bumped by "not yet at the milestone", and the link
\* goes to the head of both lists.
\* With the link made and the counters left as they are.
zio_add_child_impl_uncounted(Z, pio, cio) ==
    [Z EXCEPT
        ![pio].io_child_list = list_insert_head(@, cio),
        ![cio].io_parent_list = list_insert_head(@, pio),
        ![pio].notified_by[cio] = [w \in WaitTypes |-> 0],
        ![pio].linked_run[cio] =
            IF Z[cio].io_state["DONE"] THEN Z[cio].runs ELSE Z[cio].runs - 1]

\* With the link put at the tail of both lists.
zio_add_child_impl_tail(Z, pio, cio) ==
    [Z EXCEPT
        ![pio].io_children[Z[cio].io_child_type] =
            [w \in WaitTypes |-> @[w] + (IF Z[cio].io_state[w] THEN 0 ELSE 1)],
        ![pio].io_child_list = Append(@, cio),
        ![cio].io_parent_list = Append(@, pio),
        ![pio].notified_by[cio] = [w \in WaitTypes |-> 0],
        ![pio].linked_run[cio] =
            IF Z[cio].io_state["DONE"] THEN Z[cio].runs ELSE Z[cio].runs - 1]

zio_add_child_impl(Z, pio, cio) ==
    [Z EXCEPT
        ![pio].io_children[Z[cio].io_child_type] =
            [w \in WaitTypes |-> @[w] + (IF Z[cio].io_state[w] THEN 0 ELSE 1)],
        ![pio].io_child_list = list_insert_head(@, cio),
        ![cio].io_parent_list = list_insert_head(@, pio),
        ![pio].notified_by[cio] = [w \in WaitTypes |-> 0],
        ![pio].linked_run[cio] =
            IF Z[cio].io_state["DONE"] THEN Z[cio].runs ELSE Z[cio].runs - 1]

zio_remove_child(Z, pio, cio) ==
    [Z EXCEPT
        ![pio].io_child_list = list_remove(@, cio),
        ![cio].io_parent_list = list_remove(@, pio)]

\* A fresh zio_t; pio is <<>> or <<parent>>.  Four fields are history kept
\* for the properties below and are read by no operation: own_error (io_error
\* as zio_done() found it), runs (1 + the number of reexecutions),
\* notified_by (per child, the notifications received from it) and linked_run
\* (per child, its completed runs when the link was made).
zio_create(Z, id, pio, type, child_type, flags, stage, pipeline, done, vd, bp) ==
    LET fresh == [
            alive |-> TRUE, io_type |-> type, io_child_type |-> child_type,
            io_flags |-> flags, io_orig_flags |-> flags,
            io_stage |-> stage, io_orig_stage |-> stage,
            io_pipeline |-> pipeline, io_orig_pipeline |-> pipeline,
            io_state |-> InitialState(stage, pipeline),
            io_children |-> NoChildren, io_child_error |-> NoChildError,
            io_error |-> E0, io_post |-> {}, io_stall |-> <<>>,
            io_executor |-> NoThread, io_waiter |-> NoThread,
            io_queued_timestamp |-> FALSE,
            io_parent_list |-> <<>>, io_child_list |-> <<>>,
            io_done |-> done, io_vd |-> vd,
            io_logical |-> (bp /\ child_type = "LOGICAL"),
            io_queue_state |-> "NONE", io_vsd |-> E0, io_lock |-> <<>>,
            io_prop |-> NoProp, io_abd |-> NoData, io_ready |-> FALSE,
            io_metaslab_class |->
                IF pio = <<>> THEN NoClass ELSE Z[pio[1]].io_metaslab_class,
            own_error |-> E0, runs |-> 1,
            notified_by |-> [c \in AllIds |-> [w \in WaitTypes |-> 0]],
            linked_run |-> [c \in AllIds |-> 0]]
        Z1 == [Z EXCEPT ![id] = fresh]
    IN  IF pio = <<>> THEN Z1 ELSE zio_add_child_impl(Z1, pio[1], id)

zio_destroy(Z, id) == [Z EXCEPT ![id] = NoZio]

\* io_lock is <<>> when free and <<owner, n>> when held, n being the number
\* of zio locks the owner held already when it took this one.
HeldBy(Z, t) == {k \in AllIds : Z[k].alive /\ Z[k].io_lock # <<>> /\ Z[k].io_lock[1] = t}
mutex_free(Z, id) == ~Z[id].alive \/ Z[id].io_lock = <<>>
mutex_enter(Z, id, t) ==
    [Z EXCEPT ![id].io_lock = <<t, Cardinality(HeldBy(Z, t))>>]
mutex_exit(Z, id) == [Z EXCEPT ![id].io_lock = <<>>]

\* The zios whose locks the stage handlers of id may take: id itself
\* (zio_wait_for_children), its parents (zio_notify_parent, zio_remove_child)
\* and its children (zio_add_child).  A step that takes and releases locks
\* within itself needs them free.
Family(Z, id) ==
    IF ~Z[id].alive THEN {}
    ELSE {id} \cup {Z[id].io_parent_list[i] : i \in 1..Len(Z[id].io_parent_list)}
              \cup {Z[id].io_child_list[i] : i \in 1..Len(Z[id].io_child_list)}
LocksFree(Z, ids) == \A k \in ids : mutex_free(Z, k)

\* The first child type in bits with an outstanding counter: <<>> or <<c>>.
WaitChild(Zr, bits, wait) ==
    LET S == {i \in 1..Len(ChildOrder) :
                /\ ChildOrder[i] \in bits
                /\ Zr.io_children[ChildOrder[i]][wait] # 0}
    IN  IF S = {} THEN <<>> ELSE <<ChildOrder[Min(S)]>>

\* With the stage left where it is when the zio stalls.
zio_wait_for_children_norewind(Zr, bits, wait) ==
    LET c == WaitChild(Zr, bits, wait)
    IN  IF c = <<>> THEN Zr
        ELSE [Zr EXCEPT !.io_stall = <<c[1], wait>>]

\* When a counter is outstanding the zio backs up one stage and stalls on it.
zio_wait_for_children(Zr, bits, wait) ==
    LET c == WaitChild(Zr, bits, wait)
    IN  IF c = <<>> THEN Zr
        ELSE [Zr EXCEPT !.io_stage = @ - 1, !.io_stall = <<c[1], wait>>]

\* The world a handler transforms: zios, task queues, device, pool state, and
\* the zio the handler hands back to the dispatcher (next / ret).
zio_taskq_dispatch(w, id, q) ==
    [w EXCEPT !.tq = @ \cup {<<q, "zio_execute", id>>}]

\* With the child's error recorded whatever the child's flags.
zio_notify_parent_propagate(w, pio, cio, wait, nextp) ==
    LET P == w.z[pio]
        C == w.z[cio]
        c == C.io_child_type
        P1 == [P EXCEPT
                !.io_child_error[c] =
                    IF C.io_error # E0
                    THEN zio_worst_error(@, C.io_error) ELSE @,
                !.io_post = @ \cup C.io_post,
                !.io_children[c][wait] = @ - 1,
                !.notified_by[cio][wait] = @ + 1]
        wake == P1.io_children[c][wait] = 0 /\ P.io_stall = <<c, wait>>
        q == IF P.io_stage < ZIO_STAGE_VDEV_IO_START
             THEN "ISSUE" ELSE "INTERRUPT"
        direct == /\ nextp
                  /\ w.next = <<>>
                  /\ \/ P.io_type = C.io_type
                     \/ P.io_type = "NULL" /\ ~P.io_done
        w1 == [w EXCEPT !.z[pio] = IF wake THEN [P1 EXCEPT !.io_stall = <<>>]
                                   ELSE P1]
    IN  IF ~wake THEN w1
        ELSE IF direct THEN [w1 EXCEPT !.next = <<pio>>]
        ELSE zio_taskq_dispatch(w1, pio, q)

\* With the parent resumed whenever the counter reaches zero, stalled on it
\* or not.
zio_notify_parent_always(w, pio, cio, wait, nextp) ==
    LET P == w.z[pio]
        C == w.z[cio]
        c == C.io_child_type
        P1 == [P EXCEPT
                !.io_child_error[c] =
                    IF C.io_error # E0 /\ "DONT_PROPAGATE" \notin C.io_flags
                    THEN zio_worst_error(@, C.io_error) ELSE @,
                !.io_post = @ \cup C.io_post,
                !.io_children[c][wait] = @ - 1,
                !.notified_by[cio][wait] = @ + 1]
        wake == P1.io_children[c][wait] = 0
        q == IF P.io_stage < ZIO_STAGE_VDEV_IO_START
             THEN "ISSUE" ELSE "INTERRUPT"
        w1 == [w EXCEPT !.z[pio] = IF wake THEN [P1 EXCEPT !.io_stall = <<>>]
                                   ELSE P1]
    IN  IF ~wake THEN w1 ELSE zio_taskq_dispatch(w1, pio, q)

zio_notify_parent(w, pio, cio, wait, nextp) ==
    LET P == w.z[pio]
        C == w.z[cio]
        c == C.io_child_type
        P1 == [P EXCEPT
                !.io_child_error[c] =
                    IF C.io_error # E0 /\ "DONT_PROPAGATE" \notin C.io_flags
                    THEN zio_worst_error(@, C.io_error) ELSE @,
                !.io_post = @ \cup C.io_post,
                !.io_children[c][wait] = @ - 1,
                !.notified_by[cio][wait] = @ + 1]
        wake == P1.io_children[c][wait] = 0 /\ P.io_stall = <<c, wait>>
        q == IF P.io_stage < ZIO_STAGE_VDEV_IO_START
             THEN "ISSUE" ELSE "INTERRUPT"
        direct == /\ nextp
                  /\ w.next = <<>>
                  /\ \/ P.io_type = C.io_type
                     \/ P.io_type = "NULL" /\ ~P.io_done
        w1 == [w EXCEPT !.z[pio] = IF wake THEN [P1 EXCEPT !.io_stall = <<>>]
                                   ELSE P1]
    IN  IF ~wake THEN w1
        ELSE IF direct THEN [w1 EXCEPT !.next = <<pio>>]
        ELSE zio_taskq_dispatch(w1, pio, q)

\* The child error merged by rank instead of taken only when io_error is 0.
zio_inherit_child_errors_worst(Zr, c) ==
    [Zr EXCEPT !.io_error = zio_worst_error(@, Zr.io_child_error[c])]

zio_inherit_child_errors(Zr, c) ==
    IF Zr.io_child_error[c] # E0 /\ Zr.io_error = E0
    THEN [Zr EXCEPT !.io_error = Zr.io_child_error[c]]
    ELSE Zr

\* Notify every parent on plist, oldest link last (the list is walked from
\* its head).
RECURSIVE NotifyParents(_, _, _, _)
NotifyParents(w, cio, plist, wait) ==
    IF plist = <<>> THEN w
    ELSE NotifyParents(zio_notify_parent(w, Head(plist), cio, wait, FALSE),
                       cio, Tail(plist), wait)

\* ---------------------------------------------------- allocation throttle
\* The slots of a class allocator and the class a zio should allocate from
\* are kept by the metaslab and spa layers: a reservation succeeds while a
\* slot is free, and a zio prefers the special class until it has tried a
\* class.
MaxSlots == 1
metaslab_class_throttle_reserve(M, mc) == M[mc].mca_reserved < MaxSlots
metaslab_class_throttle_unreserve(M, mc, copies) ==
    [M EXCEPT ![mc].mca_reserved = @ - copies]
\* zio->io_prop.zp_copies; a write whose properties do not say has one copy.
zp_copies(Zr) ==
    IF "zp_copies" \in DOMAIN Zr.io_prop THEN Zr.io_prop.zp_copies ELSE 1
spa_preferred_class(Zr) ==
    IF Zr.io_metaslab_class = NoClass THEN "special" ELSE "normal"

\* The first zio of the queue handed back without a look at the slots.
zio_io_to_allocate_unreserved(w, mc) ==
    LET tree == w.mc[mc].mca_tree
        id == Min(tree)
    IN  IF tree = {} THEN [w EXCEPT !.nio = <<>>]
        ELSE [w EXCEPT !.z[id].io_flags = @ \cup {"ALLOC_THROTTLED"},
                       !.mc[mc].mca_tree = @ \ {id},
                       !.nio = <<id>>]

\* The first zio of the queue gets a slot, if there is one: it leaves the
\* queue marked as throttled and is handed back in nio.
zio_io_to_allocate(w, mc) ==
    LET tree == w.mc[mc].mca_tree
        id == Min(tree)
    IN  IF tree = {} \/ ~metaslab_class_throttle_reserve(w.mc, mc)
        THEN [w EXCEPT !.nio = <<>>]
        ELSE [w EXCEPT !.z[id].io_flags = @ \cup {"ALLOC_THROTTLED"},
                       !.mc[mc].mca_tree = @ \ {id},
                       !.mc[mc].mca_reserved = @ + zp_copies(w.z[id]),
                       !.nio = <<id>>]

\* Every queued zio that can get a slot now goes to the issue taskq.
RECURSIVE zio_allocate_dispatch(_, _)
zio_allocate_dispatch(w, mc) ==
    LET w1 == zio_io_to_allocate(w, mc)
    IN  IF w1.nio = <<>> THEN w1
        ELSE zio_allocate_dispatch(
                zio_taskq_dispatch([w1 EXCEPT !.nio = <<>>], w1.nio[1], "ISSUE"),
                mc)

\* Slots of mc are given back and the queue of dmc is served.
zio_unreserve_dispatch(w, mc, copies, dmc) ==
    zio_allocate_dispatch(
        [w EXCEPT !.mc = metaslab_class_throttle_unreserve(w.mc, mc, copies)],
        dmc)

\* The slot given back and nobody told.
zio_dva_throttle_done_quiet(w, id) ==
    LET pio == w.z[id].io_parent_list[1]
    IN  [w EXCEPT !.mc = metaslab_class_throttle_unreserve(
                            w.mc, w.z[pio].io_metaslab_class, 1)]

\* zio_done() of a throttled vdev child: the accounting of its parent.
zio_dva_throttle_done(w, id) ==
    LET pio == w.z[id].io_parent_list[1]
    IN  zio_unreserve_dispatch(w, w.z[pio].io_metaslab_class, 1,
                               w.z[id].io_metaslab_class)

\* ------------------------------------------------ dedup child callbacks
\* io_ready of the child a dedup write issues: its DVAs extend the entry.
zio_ddt_child_write_ready(w, id) ==
    LET Zr == w.z[id]
        ck == Zr.io_prop.zp_checksum
    IN  IF Zr.io_error # E0 THEN w
        ELSE [w EXCEPT !.ddt[ck].dde_phys = 1, !.ddt[ck].abd = Zr.io_abd]

\* io_done of that child: it is the lead no longer, and a failed write takes
\* the entry back to what it was.
zio_ddt_child_write_done(w, id) ==
    LET Zr == w.z[id]
        ck == Zr.io_prop.zp_checksum
        w1 == IF w.ddt[ck].dde_lead_zio = <<id>>
              THEN [w EXCEPT !.ddt[ck].dde_lead_zio = <<>>] ELSE w
    IN  IF Zr.io_error # E0
        THEN [w1 EXCEPT !.ddt[ck].dde_phys = w.ddt[ck].dde_orig_phys,
                        !.ddt[ck].dde_orig_phys = 0]
        ELSE IF w1.ddt[ck].dde_lead_zio = <<>>
        THEN [w1 EXCEPT !.ddt[ck].dde_orig_phys = 0]
        ELSE [w1 EXCEPT !.ddt[ck].dde_orig_phys = w1.ddt[ck].dde_phys]

\* ------------------------------------------------------------- zio_ready
\* The child types zio_ready() waits for; with the logical bit left out.
ReadyWaitBits_no_logical == {"GANG", "DDT"}

ReadyWaitBits == {"LOGICAL", "GANG", "DDT"}

zio_ready(w, id) ==
    LET Z0 == w.z[id]
        bits == ReadyWaitBits
    IN  IF WaitChild(Z0, bits, "READY") # <<>>
        THEN [w EXCEPT !.z[id] = zio_wait_for_children(Z0, bits, "READY"),
                       !.ret = <<>>]
        ELSE
            LET wr == IF Z0.io_ready THEN zio_ddt_child_write_ready(w, id)
                      ELSE w
                wu == IF Z0.io_error # E0 /\ "ALLOC_THROTTLED" \in Z0.io_flags
                      THEN zio_unreserve_dispatch(wr, Z0.io_metaslab_class,
                                                  zp_copies(Z0),
                                                  Z0.io_metaslab_class)
                      ELSE wr
                Z1 == [wu.z[id] EXCEPT
                        !.io_pipeline = IF Z0.io_error # E0
                                        THEN ZIO_INTERLOCK_PIPELINE ELSE @,
                        !.io_state["READY"] = TRUE]
                w1 == [wu EXCEPT !.z[id] = Z1]
                w2 == NotifyParents(w1, id, Z1.io_parent_list, "READY")
            IN  [w2 EXCEPT !.ret = <<id>>]

\* -------------------------------------------------- suspend / zio_done
\* A free slot for a new spa_suspend_zio_root.
FreeSuspendIds(Z) == {r \in SuspendIds : ~Z[r].alive}

zio_root(Z, id, flags) ==
    zio_create(Z, id, <<>>, "NULL", "LOGICAL", flags, ZIO_STAGE_OPEN,
               ZIO_ROOT_PIPELINE, FALSE, FALSE, FALSE)

\* With the pool marked suspended and the zio left where it is.
zio_suspend_loose(w, id) == [w EXCEPT !.susp = TRUE]

zio_suspend(w, id) ==
    LET r == IF w.sroot = <<>> THEN Min(FreeSuspendIds(w.z)) ELSE w.sroot[1]
        Z1 == IF w.sroot = <<>>
              THEN zio_root(w.z, r, {"CANFAIL", "SPECULATIVE", "GODFATHER"})
              ELSE w.z
    IN  [w EXCEPT !.z = zio_add_child_impl(Z1, r, id),
                  !.susp = TRUE,
                  !.sroot = <<r>>]

\* With every error of an allocating zio answered by reexecution.
PostOnError_reexecute(Zr, failmode) ==
    IF "CANFAIL" \in Zr.io_flags THEN Zr.io_post
    ELSE Zr.io_post \cup (IF IO_IS_ALLOCATING(Zr) THEN {"REEXECUTE"}
                          ELSE {"SUSPEND"})

\* With the can-fail flag not looked at: every failed zio suspends.
PostOnError_suspend(Zr, failmode) ==
    IF Zr.io_post \cap {"REEXECUTE", "SUSPEND"} = {}
    THEN Zr.io_post \cup {"SUSPEND"} ELSE Zr.io_post

\* What zio_done() adds to io_post of a failed logical zio.
PostOnError(Zr, failmode) ==
    LET p1 == IF /\ IO_IS_ALLOCATING(Zr)
                 /\ "CANFAIL" \notin Zr.io_flags
                 /\ "DIO_CHKSUM_ERR" \notin Zr.io_post
              THEN Zr.io_post \cup (IF Zr.io_error # "ENOSPC"
                                    THEN {"REEXECUTE"} ELSE {"SUSPEND"})
              ELSE Zr.io_post
        p2 == IF /\ Zr.io_type \in {"READ", "FREE"}
                 /\ "SCAN_THREAD" \notin Zr.io_flags
                 /\ Zr.io_error = "ENXIO"
                 /\ failmode # "CONTINUE"
              THEN p1 \cup {"SUSPEND"} ELSE p1
    IN  IF "CANFAIL" \notin Zr.io_flags /\ p2 \cap {"REEXECUTE", "SUSPEND"} = {}
        THEN p2 \cup {"SUSPEND"} ELSE p2

\* With the godfather keeping its ties.
GodfatherSever_keep(w, id, plist) == w

\* "The Godfather" severs its ties with a child that is about to suspend.
RECURSIVE GodfatherSever(_, _, _)
GodfatherSever(w, id, plist) ==
    IF plist = <<>> THEN w
    ELSE LET pio == Head(plist)
         IN  IF "GODFATHER" \in w.z[pio].io_flags /\ "SUSPEND" \in w.z[id].io_post
             THEN GodfatherSever(
                     zio_notify_parent(
                         [w EXCEPT !.z = zio_remove_child(w.z, pio, id)],
                         pio, id, "DONE", FALSE),
                     id, Tail(plist))
             ELSE GodfatherSever(w, id, Tail(plist))

\* The zio wants to reexecute or suspend: it notifies its parent and sticks
\* around, or, being a root, suspends or hands itself to zio_reexecute().
\* Not a root: the failure is not propagated, the parent is notified.
\* First, the notification left out.
NotifyUniqueParent_silent(w, id, pio) ==
    [w EXCEPT !.z[id].io_flags = @ \cup {"DONT_PROPAGATE"}]

NotifyUniqueParent(w, id, pio) ==
    zio_notify_parent(
        [w EXCEPT !.z[id].io_flags = @ \cup {"DONT_PROPAGATE"}],
        pio, id, "DONE", FALSE)

zio_done_reexecute(w, id) ==
    LET w1 == [w EXCEPT !.z[id].io_state["DONE"] = TRUE]
        w2 == GodfatherSever(w1, id, w1.z[id].io_parent_list)
        plist == w2.z[id].io_parent_list
        w3 == IF plist # <<>>
              THEN NotifyUniqueParent(w2, id, plist[1])
              ELSE IF "SUSPEND" \in w2.z[id].io_post
              THEN zio_suspend(w2, id)
              ELSE [w2 EXCEPT !.tq = @ \cup {<<"ISSUE", "zio_reexecute", id>>}]
    IN  [w3 EXCEPT !.ret = <<>>]

\* Unlink from and notify every parent; the first parent that becomes
\* runnable may be handed back to the dispatcher through next.
RECURSIVE DoneParents(_, _, _)
DoneParents(w, id, plist) ==
    IF plist = <<>> THEN w
    ELSE LET pio == Head(plist)
         IN  DoneParents(
                 zio_notify_parent(
                     [w EXCEPT !.z = zio_remove_child(w.z, pio, id)],
                     pio, id, "DONE", TRUE),
                 id, Tail(plist))

\* The io_done callback of a vdev child records the child's error in the
\* parent's vdev-specific data; that of a dedup child write is
\* zio_ddt_child_write_done().
io_done_callback(w, id) ==
    LET Zr == w.z[id]
    IN  IF Zr.io_done /\ Zr.io_child_type = "VDEV" /\ Zr.io_parent_list # <<>>
        THEN [w EXCEPT !.z[Zr.io_parent_list[1]].io_vsd = Zr.io_error]
        ELSE IF Zr.io_done /\ Zr.io_child_type = "DDT"
        THEN zio_ddt_child_write_done(w, id)
        ELSE w

zio_done_complete(w, id) ==
    LET w0 == io_done_callback(w, id)
        w1 == [w0 EXCEPT !.z[id].io_state["DONE"] = TRUE, !.next = <<>>]
        w2 == DoneParents(w1, id, w1.z[id].io_parent_list)
        w3 == IF w2.z[id].io_waiter # NoThread
              THEN [w2 EXCEPT !.z[id].io_executor = NoThread]
              ELSE [w2 EXCEPT !.z = zio_destroy(w2.z, id)]
    IN  [w3 EXCEPT !.ret = w2.next, !.next = <<>>]

zio_done(w, id) ==
    LET Z0 == w.z[id]
    IN  IF WaitChild(Z0, ZIO_CHILD_ALL_BITS, "DONE") # <<>>
        THEN [w EXCEPT
                !.z[id] = zio_wait_for_children(Z0, ZIO_CHILD_ALL_BITS, "DONE"),
                !.ret = <<>>]
        ELSE
            LET wt == IF /\ "ALLOC_THROTTLED" \in Z0.io_flags
                         /\ Z0.io_child_type = "VDEV"
                      THEN zio_dva_throttle_done(w, id) ELSE w
                Z1 == zio_inherit_child_errors(
                        zio_inherit_child_errors(
                          zio_inherit_child_errors(
                            [Z0 EXCEPT !.own_error = Z0.io_error],
                            "VDEV"), "GANG"), "DDT")
                Z2 == IF Z1.io_error # E0 /\ Z1.io_logical
                      THEN [Z1 EXCEPT !.io_post = PostOnError(Z1, w.failmode)]
                      ELSE Z1
                Z3 == zio_inherit_child_errors(Z2, "LOGICAL")
                Z4 == IF "GODFATHER" \in Z3.io_flags
                      THEN [Z3 EXCEPT !.io_post = @ \ {"SUSPEND"}] ELSE Z3
                w1 == [wt EXCEPT !.z[id] = Z4]
            IN  IF Z4.io_post \cap {"REEXECUTE", "SUSPEND"} # {}
                THEN zio_done_reexecute(w1, id)
                ELSE zio_done_complete(w1, id)

\* --------------------------------------------------------- vdev I/O stages
\* The flags a vdev child inherits, plus the two every vdev child gets.
ZIO_FLAG_VDEV_INHERIT ==
    {"CANFAIL", "DONT_RETRY", "IO_RETRY", "SPECULATIVE", "ALLOC_THROTTLED"}
ZIO_VDEV_CHILD_FLAGS(Zr) ==
    (Zr.io_flags \cap ZIO_FLAG_VDEV_INHERIT) \cup {"DONT_PROPAGATE", "CANFAIL"}

\* The child of a retried zio is no allocating I/O: the original child has
\* done the accounting.
VdevChildFlags(Zr) ==
    IF {"ALLOC_THROTTLED", "IO_RETRY"} \subseteq ZIO_VDEV_CHILD_FLAGS(Zr)
    THEN ZIO_VDEV_CHILD_FLAGS(Zr) \ {"ALLOC_THROTTLED"}
    ELSE ZIO_VDEV_CHILD_FLAGS(Zr)

\* A leaf zio enters the vdev queue and goes to the device.
zio_vdev_io_start_leaf(w, id) ==
    [w EXCEPT !.z[id].io_queue_state = "ACTIVE",
              !.dev = @ \cup {id},
              !.ret = <<>>]

\* The child of a Direct I/O write verifies the checksum of what it wrote.
zio_vdev_child_io(Z, pio, id) ==
    zio_create(Z, id, <<pio>>, Z[pio].io_type, "VDEV",
               VdevChildFlags(Z[pio]), ZIO_STAGE_VDEV_IO_START - 1,
               IF Z[pio].io_type = "WRITE" /\ Z[pio].io_prop.zp_direct_write
               THEN ZIO_VDEV_CHILD_PIPELINE \cup {ZIO_STAGE_DIO_CHECKSUM_VERIFY}
               ELSE ZIO_VDEV_CHILD_PIPELINE,
               TRUE, TRUE, FALSE)

\* With no vdev the zio goes to the top-level mirror op, which creates the
\* child, issues it with zio_nowait() (the child runs its own VDEV_IO_START
\* in this thread) and carries on with the parent.
zio_vdev_io_start(w, id) ==
    IF w.z[id].io_vd THEN zio_vdev_io_start_leaf(w, id)
    ELSE LET c == VdevOf(id)
             Z1 == zio_vdev_child_io(w.z, id, c)
             Z2 == [Z1 EXCEPT ![c].io_queued_timestamp = TRUE,
                              ![c].io_executor = w.self,
                              ![c].io_stage = ZIO_STAGE_VDEV_IO_START]
             w1 == zio_vdev_io_start_leaf([w EXCEPT !.z = Z2], c)
         IN  [w1 EXCEPT !.ret = <<id>>]

zio_vdev_io_done(w, id) ==
    LET Z0 == w.z[id]
    IN  IF WaitChild(Z0, {"VDEV"}, "DONE") # <<>>
        THEN [w EXCEPT !.z[id] = zio_wait_for_children(Z0, {"VDEV"}, "DONE"),
                       !.ret = <<>>]
        ELSE IF Z0.io_vd
        THEN [w EXCEPT !.z[id].io_queue_state = "NONE", !.ret = <<id>>]
        ELSE [w EXCEPT !.z[id].io_error = IF Z0.io_vsd # E0 THEN Z0.io_vsd ELSE @,
                       !.ret = <<id>>]

\* The same with the Direct I/O checksum error not looked at.
zio_vdev_io_assess_retry(w, id) ==
    LET Z0 == w.z[id]
    IN  IF WaitChild(Z0, {"VDEV"}, "DONE") # <<>>
        THEN [w EXCEPT !.z[id] = zio_wait_for_children(Z0, {"VDEV"}, "DONE"),
                       !.ret = <<>>]
        ELSE IF /\ Z0.io_error # E0
                /\ ~Z0.io_vd
                /\ Z0.io_flags \cap {"DONT_RETRY", "IO_RETRY"} = {}
        THEN zio_taskq_dispatch(
                [w EXCEPT !.z[id].io_vsd = E0,
                          !.z[id].io_error = E0,
                          !.z[id].io_flags = @ \cup {"IO_RETRY", "DONT_AGGREGATE"},
                          !.z[id].io_stage = ZIO_STAGE_VDEV_IO_START - 1,
                          !.ret = <<>>],
                id, "ISSUE")
        ELSE [w EXCEPT !.z[id].io_vsd = E0,
                       !.z[id].io_pipeline = IF Z0.io_error # E0
                                             THEN ZIO_INTERLOCK_PIPELINE ELSE @,
                       !.ret = <<id>>]

\* The same with a zio that was retried before retried again.
zio_vdev_io_assess_again(w, id) ==
    LET Z0 == w.z[id]
    IN  IF WaitChild(Z0, {"VDEV"}, "DONE") # <<>>
        THEN [w EXCEPT !.z[id] = zio_wait_for_children(Z0, {"VDEV"}, "DONE"),
                       !.ret = <<>>]
        ELSE IF "DIO_CHKSUM_ERR" \in Z0.io_post
        THEN [w EXCEPT !.z[id].io_vsd = E0,
                       !.z[id].io_pipeline = ZIO_INTERLOCK_PIPELINE,
                       !.ret = <<id>>]
        ELSE IF /\ Z0.io_error # E0
                /\ ~Z0.io_vd
                /\ "DONT_RETRY" \notin Z0.io_flags
        THEN zio_taskq_dispatch(
                [w EXCEPT !.z[id].io_vsd = E0,
                          !.z[id].io_error = E0,
                          !.z[id].io_flags = @ \cup {"IO_RETRY", "DONT_AGGREGATE"},
                          !.z[id].io_stage = ZIO_STAGE_VDEV_IO_START - 1,
                          !.ret = <<>>],
                id, "ISSUE")
        ELSE [w EXCEPT !.z[id].io_vsd = E0,
                       !.z[id].io_pipeline = IF Z0.io_error # E0
                                             THEN ZIO_INTERLOCK_PIPELINE ELSE @,
                       !.ret = <<id>>]

zio_vdev_io_assess(w, id) ==
    LET Z0 == w.z[id]
    IN  IF WaitChild(Z0, {"VDEV"}, "DONE") # <<>>
        THEN [w EXCEPT !.z[id] = zio_wait_for_children(Z0, {"VDEV"}, "DONE"),
                       !.ret = <<>>]
        ELSE IF "DIO_CHKSUM_ERR" \in Z0.io_post
        THEN [w EXCEPT !.z[id].io_vsd = E0,
                       !.z[id].io_pipeline = ZIO_INTERLOCK_PIPELINE,
                       !.ret = <<id>>]
        ELSE IF /\ Z0.io_error # E0
                /\ ~Z0.io_vd
                /\ Z0.io_flags \cap {"DONT_RETRY", "IO_RETRY"} = {}
        THEN zio_taskq_dispatch(
                [w EXCEPT !.z[id].io_vsd = E0,
                          !.z[id].io_error = E0,
                          !.z[id].io_flags = @ \cup {"IO_RETRY", "DONT_AGGREGATE"},
                          !.z[id].io_stage = ZIO_STAGE_VDEV_IO_START - 1,
                          !.ret = <<>>],
                id, "ISSUE")
        ELSE [w EXCEPT !.z[id].io_vsd = E0,
                       !.z[id].io_pipeline = IF Z0.io_error # E0
                                             THEN ZIO_INTERLOCK_PIPELINE ELSE @,
                       !.ret = <<id>>]

\* zio_dio_chksum_verify_error_report(): a vdev child that wrote has its
\* checksum error turned into EIO.
zio_dio_chksum_verify_error_report(Zr) ==
    IF Zr.io_child_type = "LOGICAL" THEN Zr
    ELSE IF Zr.io_type = "WRITE" THEN [Zr EXCEPT !.io_error = "EIO"]
    ELSE Zr

\* zio_dio_checksum_verify() of the vdev child of a Direct I/O write, with
\* zfs_vdev_direct_write_verify set; zio_checksum_error() answers w.in.
zio_dio_checksum_verify(w, id) ==
    LET Z0 == w.z[id]
    IN  IF Z0.io_error # E0 \/ w.in = E0 THEN [w EXCEPT !.ret = <<id>>]
        ELSE [w EXCEPT
                !.z[id] = IF w.in = "ECKSUM"
                          THEN zio_dio_chksum_verify_error_report(
                                  [Z0 EXCEPT !.io_error = w.in,
                                             !.io_post = @ \cup {"DIO_CHKSUM_ERR"}])
                          ELSE [Z0 EXCEPT !.io_error = w.in],
                !.ret = <<id>>]

\* ------------------------------------------------------------ write path
\* The entry of zio_wait(): the caller becomes the waiter and runs the
\* pipeline itself until the zio stalls or is handed to a taskq.
zio_wait_enter(Z, id, t) ==
    [Z EXCEPT ![id].io_waiter = t, ![id].io_queued_timestamp = TRUE]

\* Checksums strong enough to dedup on without verification, and the one the
\* pool upgrades to.
ZCHECKSUM_FLAG_DEDUP == {"sha256"}
spa_dedup_checksum == "sha256"

ZIO_DDT_CHILD_FLAGS(Zr) ==
    (Zr.io_flags \cap {"SPECULATIVE", "DONT_RETRY"}) \cup {"DDT_CHILD", "CANFAIL"}

\* zio_write(): the pipeline is that of a dedup child when the flag says so.
zio_write(Z, id, pio, flags, zp, abd, ready, done) ==
    LET Z1 == zio_create(Z, id, pio, "WRITE",
                  IF "DDT_CHILD" \in flags THEN "DDT" ELSE "LOGICAL",
                  flags, ZIO_STAGE_OPEN,
                  IF zp.zp_direct_write THEN ZIO_DIRECT_WRITE_PIPELINE
                  ELSE IF "DDT_CHILD" \in flags
                  THEN ZIO_DDT_CHILD_WRITE_PIPELINE
                  ELSE ZIO_WRITE_PIPELINE,
                  done, FALSE, TRUE)
    IN  [Z1 EXCEPT ![id].io_prop = zp, ![id].io_abd = abd,
                   ![id].io_ready = ready]

zio_issue_async(w, id) ==
    [zio_taskq_dispatch(w, id, "ISSUE") EXCEPT !.ret = <<>>]

\* Once the children are ready, a dedup write takes the dedup pipeline.
zio_write_compress(w, id) ==
    LET Z0 == w.z[id]
        bits == {"LOGICAL", "GANG"}
    IN  IF WaitChild(Z0, bits, "READY") # <<>>
        THEN [w EXCEPT !.z[id] = zio_wait_for_children(Z0, bits, "READY"),
                       !.ret = <<>>]
        ELSE IF ~IO_IS_ALLOCATING(Z0) THEN [w EXCEPT !.ret = <<id>>]
        ELSE [w EXCEPT !.z[id].io_pipeline =
                            IF Z0.io_prop.zp_dedup THEN ZIO_DDT_WRITE_PIPELINE
                            ELSE ZIO_WRITE_PIPELINE,
                       !.ret = <<id>>]

\* zio_ddt_collision() as far as it goes without I/O: the data of the lead
\* write in flight differs; or, with no lead and the block on disk, the
\* block has to be read ("read"); or there is nothing to compare with.
zio_ddt_collision(w, id, dde) ==
    IF dde.dde_lead_zio # <<>>
    THEN IF w.z[dde.dde_lead_zio[1]].io_abd # w.z[id].io_abd
         THEN "collision" ELSE "match"
    ELSE IF dde.dde_phys # 0 THEN "read" ELSE "match"

\* The weak checksum kept where the code upgrades it.
zio_ddt_write_collided_weak(w, id) ==
    LET strong == w.z[id].io_prop.zp_checksum \in ZCHECKSUM_FLAG_DEDUP
    IN  [w EXCEPT
            !.z[id].io_stage = IF strong THEN @ ELSE ZIO_STAGE_OPEN,
            !.z[id].io_prop.zp_dedup = IF strong THEN FALSE ELSE @,
            !.z[id].io_pipeline = ZIO_WRITE_PIPELINE,
            !.ret = <<id>>]

\* A collision: a weak checksum is upgraded and the write starts over; with
\* a strong one the write becomes an ordinary write.
zio_ddt_write_collided(w, id) ==
    LET strong == w.z[id].io_prop.zp_checksum \in ZCHECKSUM_FLAG_DEDUP
    IN  [w EXCEPT
            !.z[id].io_prop.zp_checksum =
                IF strong THEN @ ELSE spa_dedup_checksum,
            !.z[id].io_stage = IF strong THEN @ ELSE ZIO_STAGE_OPEN,
            !.z[id].io_prop.zp_dedup = IF strong THEN FALSE ELSE @,
            !.z[id].io_pipeline = ZIO_WRITE_PIPELINE,
            !.ret = <<id>>]

\* No collision, one copy wanted: the entry has the DVAs; or a lead write is
\* in flight and the zio slots in behind it; or the zio issues the write
\* itself, through a child that becomes the lead (zio_nowait(cio) takes the
\* child to its ISSUE_ASYNC stage, that is to the issue taskq).
zio_ddt_write_entry(w, id) ==
    LET Z0 == w.z[id]
        ck == Z0.io_prop.zp_checksum
        dde == w.ddt[ck]
        cio == InternalOf(id)
    IN  IF dde.dde_lead_zio # <<>>
        THEN [w EXCEPT !.z = zio_add_child_impl(w.z, id, dde.dde_lead_zio[1]),
                       !.ret = <<id>>]
        ELSE IF dde.dde_phys >= 1 THEN [w EXCEPT !.ret = <<id>>]
        ELSE LET Z1 == zio_write(w.z, cio, <<id>>, ZIO_DDT_CHILD_FLAGS(Z0),
                                 Z0.io_prop, Z0.io_abd, TRUE, TRUE)
                 Z2 == [Z1 EXCEPT ![cio].io_queued_timestamp = TRUE,
                                  ![cio].io_executor = w.self,
                                  ![cio].io_stage = ZIO_STAGE_ISSUE_ASYNC]
                 w1 == [w EXCEPT !.z = Z2,
                                 !.ddt[ck].dde_orig_phys = dde.dde_phys,
                                 !.ddt[ck].dde_lead_zio = <<cio>>]
             IN  [zio_issue_async(w1, cio) EXCEPT !.ret = <<id>>]

\* zio_ddt_write() from the point where zio_ddt_collision() has returned.
zio_ddt_write_verified(w, id, collision) ==
    IF w.z[id].io_prop.zp_dedup_verify /\ collision
    THEN zio_ddt_write_collided(w, id)
    ELSE zio_ddt_write_entry(w, id)

\* The read zio_ddt_collision() waits for, in the thread that runs the
\* handler: zio_wait(zio_read(NULL, ...)) of the raw block for a raw write,
\* and otherwise arc_read() with ARC_FLAG_WAIT, which waits for its read
\* zio likewise.
zio_ddt_collision_read(w, id) ==
    LET rid == InternalOf(id)
        Z1 == zio_create(w.z, rid, <<>>, "READ", "LOGICAL",
                         {"CANFAIL", "SPECULATIVE"}
                             \cup (w.z[id].io_flags \cap {"RAW"}),
                         ZIO_STAGE_OPEN,
                         ZIO_READ_PIPELINE, FALSE, FALSE, TRUE)
    IN  [w EXCEPT !.z = zio_wait_enter(Z1, rid, w.self),
                  !.wait = <<rid>>, !.ret = <<>>]

\* zio_ddt_write() up to the return of zio_ddt_collision(), or up to the
\* zio_wait() in it.  With no entry (the DDT is over its quota) the write is
\* an ordinary one.
zio_ddt_write(w, id) ==
    LET Z0 == w.z[id]
        dde == w.ddt[Z0.io_prop.zp_checksum]
        c == zio_ddt_collision(w, id, dde)
    IN  IF w.in = "ENOENT"
        THEN [w EXCEPT !.z[id].io_prop.zp_dedup = FALSE,
                       !.z[id].io_pipeline = ZIO_WRITE_PIPELINE,
                       !.ret = <<id>>]
        ELSE IF Z0.io_prop.zp_dedup_verify /\ c = "read"
        THEN zio_ddt_collision_read(w, id)
        ELSE zio_ddt_write_verified(w, id, c = "collision")

\* The zio joins the queue of its class and the head of the queue, which
\* need not be this zio, goes on if it gets a slot.
zio_dva_throttle(w, id) ==
    LET Z0 == w.z[id]
        mc == IF Z0.io_metaslab_class = NoClass
              THEN spa_preferred_class(Z0) ELSE Z0.io_metaslab_class
    IN  IF Z0.io_child_type = "GANG" \/ "NODATA" \in Z0.io_flags
        THEN [w EXCEPT !.ret = <<id>>]
        ELSE LET w1 == zio_io_to_allocate(
                          [w EXCEPT !.z[id].io_metaslab_class = mc,
                                    !.mc[mc].mca_tree = @ \cup {id}], mc)
             IN  [w1 EXCEPT !.ret = w1.nio, !.nio = <<>>]

\* metaslab_alloc() answers w.in.  When the class is full and another class
\* is preferred now, the reservation is dropped and the zio goes back to the
\* throttle stage; a block of the smallest size cannot gang, so a full last
\* class fails the zio.
zio_dva_allocate(w, id) ==
    LET Z0 == w.z[id]
        mc == IF Z0.io_metaslab_class = NoClass
              THEN spa_preferred_class(Z0) ELSE Z0.io_metaslab_class
        Zm == [Z0 EXCEPT !.io_metaslab_class = mc]
        newmc == spa_preferred_class(Zm)
        wm == [w EXCEPT !.z[id] = Zm]
    IN  IF w.in = "ENOSPC" /\ newmc # mc
        THEN LET wu == IF "ALLOC_THROTTLED" \in Zm.io_flags
                       THEN zio_unreserve_dispatch(wm, mc, zp_copies(Zm), mc)
                       ELSE wm
             IN  [wu EXCEPT !.z[id].io_flags = @ \ {"ALLOC_THROTTLED"},
                            !.z[id].io_metaslab_class = newmc,
                            !.z[id].io_stage = ZIO_STAGE_DVA_THROTTLE - 1,
                            !.ret = <<id>>]
        ELSE [wm EXCEPT !.z[id].io_error = IF w.in # E0 THEN w.in ELSE @,
                        !.ret = <<id>>]

\* ----------------------------------------------------------- dispatcher
\* zio_pipeline[stage](zio)
StageHandler(stage, w, id) ==
    CASE stage = ZIO_STAGE_ISSUE_ASYNC -> zio_issue_async(w, id)
      [] stage = ZIO_STAGE_WRITE_COMPRESS -> zio_write_compress(w, id)
      [] stage = ZIO_STAGE_DDT_WRITE -> zio_ddt_write(w, id)
      [] stage = ZIO_STAGE_DVA_THROTTLE -> zio_dva_throttle(w, id)
      [] stage = ZIO_STAGE_DVA_ALLOCATE -> zio_dva_allocate(w, id)
      [] stage = ZIO_STAGE_READY -> zio_ready(w, id)
      [] stage = ZIO_STAGE_VDEV_IO_START -> zio_vdev_io_start(w, id)
      [] stage = ZIO_STAGE_VDEV_IO_DONE -> zio_vdev_io_done(w, id)
      [] stage = ZIO_STAGE_VDEV_IO_ASSESS -> zio_vdev_io_assess(w, id)
      [] stage = ZIO_STAGE_DIO_CHECKSUM_VERIFY ->
            zio_dio_checksum_verify(w, id)
      [] stage = ZIO_STAGE_DONE -> zio_done(w, id)

\* in is what the environment answers the handler (the allocator, the DDT
\* lookup); wait is the zio the handler has entered zio_wait() for.
World(t) ==
    [z |-> zio, tq |-> taskq, dev |-> device, susp |-> spa_suspended,
     sroot |-> spa_suspend_zio_root, failmode |-> spa_failmode,
     ddt |-> ddt, mc |-> metaslab, in |-> E0, wait |-> <<>>, nio |-> <<>>,
     next |-> <<>>, ret |-> <<>>, self |-> t]

Commit(w) ==
    /\ zio' = w.z
    /\ taskq' = w.tq
    /\ device' = w.dev
    /\ spa_suspended' = w.susp
    /\ spa_suspend_zio_root' = w.sroot
    /\ ddt' = w.ddt
    /\ metaslab' = w.mc

Frame(op, id, cur) == [op |-> op, z |-> id, cur |-> cur]
Idle(t) == stack[t] = <<>>
Top(t) == Head(stack[t])
Running(t, op) == stack[t] # <<>> /\ Top(t).op = op

\* A zio that was freed, or is past its last stage, is reached only through a
\* stale reference (a second dispatch of a zio that was being processed).
\* What the loop does with it is undefined: the worker gets out of it in this
\* step, or never (no step is taken).
Stale(id) == ~zio[id].alive \/ zio[id].io_stage >= ZIO_STAGE_DONE

\* What the environment may answer the handler of a stage: the allocator
\* has space or not, the DDT has an entry for the block or not.
HandlerInputs(stage) ==
    CASE stage = ZIO_STAGE_DVA_ALLOCATE ->
            IF faults < MaxFaults THEN {E0, "ENOSPC"} ELSE {E0}
      [] stage = ZIO_STAGE_DDT_WRITE -> {E0, "ENOENT"}
      [] stage = ZIO_STAGE_DIO_CHECKSUM_VERIFY -> {E0, "ECKSUM"}
      [] OTHER -> {E0}

\* The stack of t once the handler of id has returned w1: the thread is in
\* zio_wait() inside the handler, or leaves the loop, or goes round it with
\* the zio the handler returned.
AfterHandler(t, w1, id) ==
    IF w1.wait # <<>>
    THEN <<Frame("exec", w1.wait[1], <<>>), Frame("wait", w1.wait[1], <<>>),
           Frame("zio_ddt_write", id, <<>>)>> \o Tail(stack[t])
    ELSE IF w1.ret = <<>> THEN Tail(stack[t])
    ELSE <<Frame("exec", w1.ret[1], <<>>)>> \o Tail(stack[t])

\* The thread is in the loop of __zio_execute() and the io_locks the stage
\* takes are free.
CanExecute(t) ==
    /\ Running(t, "exec")
    /\ IF Stale(Top(t).z) THEN TRUE
       ELSE LocksFree(zio, Family(zio, Top(t).z))

\* One iteration of the loop of __zio_execute().
ZioExecute(t) ==
    /\ CanExecute(t)
    /\ LET id == Top(t).z
           Z0 == zio[id]
           stage == Min({s \in Z0.io_pipeline : s > Z0.io_stage})
           w0 == [World(t) EXCEPT !.z[id].io_executor = t]
       IN  IF Stale(id)
           THEN /\ stack' = [stack EXCEPT ![t] = Tail(@)]
                /\ UNCHANGED <<zio, taskq, device, spa_suspended,
                               spa_suspend_zio_root, ddt, metaslab, faults>>
           ELSE IF stage \in ZIO_BLOCKING_STAGES /\ ~Z0.io_vd
                   /\ TaskqOf(t) = "INTERRUPT"
                THEN /\ Commit(zio_taskq_dispatch(w0, id, "ISSUE"))
                     /\ stack' = [stack EXCEPT ![t] = Tail(@)]
                     /\ faults' = faults
                ELSE \E in \in HandlerInputs(stage) :
                     LET w1 == StageHandler(stage,
                                   [w0 EXCEPT !.z[id].io_stage = stage,
                                              !.in = in], id)
                     IN  /\ Commit(w1)
                         /\ stack' = [stack EXCEPT ![t] =
                                         AfterHandler(t, w1, id)]
                         /\ faults' = IF in = "ENOSPC" THEN faults + 1
                                      ELSE faults
    /\ UNCHANGED <<call, spa_deadman_failmode, spa_failmode, wait_result,
                   created>>

\* zio_wait() in zio_ddt_collision() has returned: the block read differs
\* from the data, or could not be read, or matches; zio_ddt_write() goes on.
CanDdtWrite(t) ==
    /\ Running(t, "zio_ddt_write")
    /\ LocksFree(zio, Family(zio, Top(t).z))

ZioDdtWrite(t) ==
    /\ CanDdtWrite(t)
    /\ LET id == Top(t).z
           error == wait_result[InternalOf(id)].error
           collision ==
               \/ error # E0
               \/ ddt[zio[id].io_prop.zp_checksum].abd # zio[id].io_abd
           w1 == zio_ddt_write_verified(World(t), id, collision)
       IN  /\ Commit(w1)
           /\ stack' = [stack EXCEPT ![t] = AfterHandler(t, w1, id)]
    /\ UNCHANGED <<call, spa_deadman_failmode, spa_failmode, faults,
                   wait_result, created>>

\* --------------------------------------------------------- zio_reexecute
\* The parents' counters left as they are.
AddWaitCounts_skip(Z, pio, plist) == Z

RECURSIVE AddWaitCounts(_, _, _)
AddWaitCounts(Z, pio, plist) ==
    IF plist = <<>> THEN Z
    ELSE AddWaitCounts(
            [Z EXCEPT ![Head(plist)].io_children[Z[pio].io_child_type] =
                [w \in WaitTypes |->
                    @[w] + (IF Z[pio].io_state[w] THEN 0 ELSE 1)]],
            pio, Tail(plist))

\* With the child errors of the failed run kept.
zio_reexecute_reset_keep(Z, pio) ==
    LET P0 == Z[pio]
    IN  [Z EXCEPT ![pio] = [P0 EXCEPT
                !.io_flags = P0.io_orig_flags \cup {"REEXECUTED"},
                !.io_stage = P0.io_orig_stage,
                !.io_pipeline = P0.io_orig_pipeline,
                !.io_post = {},
                !.io_error = E0,
                !.io_state = InitialState(P0.io_orig_stage, P0.io_orig_pipeline),
                !.runs = @ + 1]]

\* pio goes back to its original state.
zio_reexecute_reset(Z, pio) ==
    LET P0 == Z[pio]
    IN  [Z EXCEPT ![pio] = [P0 EXCEPT
                !.io_flags = P0.io_orig_flags \cup {"REEXECUTED"},
                !.io_stage = P0.io_orig_stage,
                !.io_pipeline = P0.io_orig_pipeline,
                !.io_post = {},
                !.io_error = E0,
                !.io_state = InitialState(P0.io_orig_stage, P0.io_orig_pipeline),
                !.io_child_error = NoChildError,
                !.runs = @ + 1]]

\* zio_reexecute() up to its loop over the children: pio is reset and its
\* wait states are added to every parent's counters.
zio_reexecute(Z, pio) ==
    AddWaitCounts(zio_reexecute_reset(Z, pio), pio, Z[pio].io_parent_list)

\* The same in one step, every lock it takes being free.
ZioReexecuteEnter(t) ==
    /\ Running(t, "zio_reexecute")
    /\ LET pio == Top(t).z
       IN  /\ LocksFree(zio, Family(zio, pio))
           /\ zio' = zio_reexecute(zio, pio)
           /\ stack' = [stack EXCEPT ![t] =
                 <<Frame("reexec", pio, list_head(zio[pio].io_child_list))>>
                 \o Tail(@)]
    /\ UNCHANGED <<call, spa_deadman_failmode, ddt, metaslab,
                   taskq, device, spa_suspended,
                   spa_suspend_zio_root, spa_failmode, faults, wait_result,
                   created>>

\* The same lock by lock.  First pio's own lock and the reset.
ZioReexecuteReset(t) ==
    /\ Running(t, "zio_reexecute")
    /\ LET pio == Top(t).z
       IN  /\ mutex_free(zio, pio)
           /\ zio' = mutex_enter(zio_reexecute_reset(zio, pio), pio, t)
           /\ stack' = [stack EXCEPT ![t] =
                 <<Frame("reexec_parents", pio, zio[pio].io_parent_list)>>
                 \o Tail(@)]
    /\ UNCHANGED <<call, spa_deadman_failmode, ddt, metaslab,
                   taskq, device, spa_suspended,
                   spa_suspend_zio_root, spa_failmode, faults, wait_result,
                   created>>

\* mutex_enter(&gio->io_lock) for the next parent, pio's lock being held.
ZioReexecuteLockParent(t) ==
    /\ Running(t, "reexec_parents")
    /\ Top(t).cur # <<>>
    /\ LET pio == Top(t).z
           gio == Head(Top(t).cur)
       IN  /\ mutex_free(zio, gio)
           /\ zio' = mutex_enter(zio, gio, t)
           /\ stack' = [stack EXCEPT ![t] =
                 <<Frame("reexec_count", pio, Top(t).cur)>> \o Tail(@)]
    /\ UNCHANGED <<call, spa_deadman_failmode, ddt, metaslab,
                   taskq, device, spa_suspended,
                   spa_suspend_zio_root, spa_failmode, faults, wait_result,
                   created>>

\* The parent's counters are raised and its lock is dropped.
ZioReexecuteCountParent(t) ==
    /\ Running(t, "reexec_count")
    /\ LET pio == Top(t).z
           gio == Head(Top(t).cur)
       IN  /\ zio' = mutex_exit(AddWaitCounts(zio, pio, <<gio>>), gio)
           /\ stack' = [stack EXCEPT ![t] =
                 <<Frame("reexec_parents", pio, Tail(Top(t).cur))>> \o Tail(@)]
    /\ UNCHANGED <<call, spa_deadman_failmode, ddt, metaslab,
                   taskq, device, spa_suspended,
                   spa_suspend_zio_root, spa_failmode, faults, wait_result,
                   created>>

\* No parent is left: on to the loop over the children.
ZioReexecuteParentsDone(t) ==
    /\ Running(t, "reexec_parents")
    /\ Top(t).cur = <<>>
    /\ LET pio == Top(t).z
       IN  /\ zio' = mutex_exit(zio, pio)
           /\ stack' = [stack EXCEPT ![t] =
                 <<Frame("reexec", pio, list_head(zio[pio].io_child_list))>>
                 \o Tail(@)]
    /\ UNCHANGED <<call, spa_deadman_failmode, ddt, metaslab,
                   taskq, device, spa_suspended,
                   spa_suspend_zio_root, spa_failmode, faults, wait_result,
                   created>>

\* The loop over the children: each child in turn (the cursor is read before
\* the child is reexecuted, pio's lock is dropped around the call), then pio
\* itself unless it is a Godfather.
ZioReexecute(t) ==
    /\ Running(t, "reexec")
    /\ mutex_free(zio, Top(t).z)
    /\ LET pio == Top(t).z
           cur == Top(t).cur
       IN  IF cur # <<>>
           THEN LET cio == cur[1]
                    cio_next == list_next(zio[pio].io_child_list, cio)
                IN  /\ zio' = zio
                    /\ stack' = [stack EXCEPT ![t] =
                          <<Frame("zio_reexecute", cio, <<>>),
                            Frame("reexec", pio, cio_next)>> \o Tail(@)]
           ELSE IF "GODFATHER" \notin zio[pio].io_flags
           THEN /\ zio' = [zio EXCEPT ![pio].io_queued_timestamp = TRUE]
                /\ stack' = [stack EXCEPT ![t] =
                          <<Frame("exec", pio, <<>>)>> \o Tail(@)]
           ELSE /\ zio' = zio
                /\ stack' = [stack EXCEPT ![t] = Tail(@)]
    /\ UNCHANGED <<call, spa_deadman_failmode, ddt, metaslab,
                   taskq, device, spa_suspended,
                   spa_suspend_zio_root, spa_failmode, faults, wait_result,
                   created>>

\* zio_resume(): the suspended tree is reexecuted and then waited for.
ZioResume(t) ==
    /\ Idle(t)
    /\ spa_suspend_zio_root # <<>>
    /\ FreeSuspendIds(zio) # {}
    /\ LET pio == spa_suspend_zio_root[1]
       IN  /\ zio' = zio
           /\ stack' = [stack EXCEPT ![t] =
                 <<Frame("zio_reexecute", pio, <<>>),
                   Frame("zio_wait", pio, <<>>)>>]
    /\ spa_suspended' = FALSE
    /\ spa_suspend_zio_root' = <<>>
    /\ UNCHANGED <<call, spa_deadman_failmode, ddt, metaslab,
                   taskq, device, spa_failmode,
                   faults, wait_result, created>>

\* zio_resume_wait(): the caller sleeps on spa_suspend_cv while the pool is
\* suspended.
ZioResumeWait(t) ==
    /\ Idle(t)
    /\ stack' = [stack EXCEPT ![t] = <<Frame("zio_resume_wait", 0, <<>>)>>]
    /\ UNCHANGED <<zio, call, spa_deadman_failmode, ddt, metaslab, taskq,
                   device, spa_suspended, spa_suspend_zio_root, spa_failmode,
                   faults, wait_result, created>>

\* With the loop left whatever the pool's state.
ZioResumeWaitReturn_any(t) ==
    /\ Running(t, "zio_resume_wait")
    /\ stack' = [stack EXCEPT ![t] = Tail(@)]
    /\ UNCHANGED <<zio, call, spa_deadman_failmode, ddt, metaslab, taskq,
                   device, spa_suspended, spa_suspend_zio_root, spa_failmode,
                   faults, wait_result, created>>

ZioResumeWaitReturn(t) ==
    /\ Running(t, "zio_resume_wait")
    /\ ~spa_suspended
    /\ stack' = [stack EXCEPT ![t] = Tail(@)]
    /\ UNCHANGED <<zio, call, spa_deadman_failmode, ddt, metaslab, taskq,
                   device, spa_suspended, spa_suspend_zio_root, spa_failmode,
                   faults, wait_result, created>>

\* ------------------------------------------------- zio_wait / zio_nowait
Submittable(id) ==
    /\ zio[id].alive
    /\ zio[id].io_stage = ZIO_STAGE_OPEN
    /\ zio[id].io_executor = NoThread
    /\ ~zio[id].io_queued_timestamp

ZioWait(t, id) ==
    /\ Idle(t)
    /\ Submittable(id)
    /\ zio' = zio_wait_enter(zio, id, t)
    /\ stack' = [stack EXCEPT ![t] =
          <<Frame("exec", id, <<>>), Frame("wait", id, <<>>)>>]
    /\ UNCHANGED <<call, spa_deadman_failmode, ddt, metaslab,
                   taskq, device, spa_suspended,
                   spa_suspend_zio_root, spa_failmode, faults, wait_result,
                   created>>

\* zio_resume() reaches its zio_wait(pio).
ZioWaitResumed(t) ==
    /\ Running(t, "zio_wait")
    /\ LET id == Top(t).z
       IN  /\ zio' = zio_wait_enter(zio, id, t)
           /\ stack' = [stack EXCEPT ![t] =
                 <<Frame("exec", id, <<>>), Frame("wait", id, <<>>)>> \o Tail(@)]
    /\ UNCHANGED <<call, spa_deadman_failmode, ddt, metaslab,
                   taskq, device, spa_suspended,
                   spa_suspend_zio_root, spa_failmode, faults, wait_result,
                   created>>

\* The waiter wakes once nobody executes the zio any more, takes the error
\* and destroys the zio.
ZioWaitReturn(t) ==
    /\ Running(t, "wait")
    /\ LET id == Top(t).z
       IN  /\ zio[id].io_executor = NoThread
           /\ mutex_free(zio, id)
           /\ wait_result' = [wait_result EXCEPT ![id] =
                 [error |-> zio[id].io_error,
                  own_error |-> zio[id].own_error,
                  io_child_error |-> zio[id].io_child_error]]
           /\ zio' = zio_destroy(zio, id)
    /\ stack' = [stack EXCEPT ![t] = Tail(@)]
    /\ UNCHANGED <<call, spa_deadman_failmode, ddt, metaslab,
                   taskq, device, spa_suspended,
                   spa_suspend_zio_root, spa_failmode, faults, created>>

\* A parentless logical zio is first adopted by the async root.
ZioNowait(t, id) ==
    /\ Idle(t)
    /\ id \in CallerIds
    /\ Submittable(id)
    /\ LocksFree(zio, {id, spa_async_zio_root})
    /\ LET Z1 == IF /\ zio[id].io_child_type = "LOGICAL"
                    /\ zio[id].io_parent_list = <<>>
                 THEN zio_add_child_impl(zio, spa_async_zio_root, id)
                 ELSE zio
       IN  zio' = [Z1 EXCEPT ![id].io_queued_timestamp = TRUE]
    /\ stack' = [stack EXCEPT ![t] = <<Frame("exec", id, <<>>)>>]
    /\ UNCHANGED <<call, spa_deadman_failmode, ddt, metaslab,
                   taskq, device, spa_suspended,
                   spa_suspend_zio_root, spa_failmode, faults, wait_result,
                   created>>

\* ------------------------------------------------------------ the deadman
taskq_empty_ent(w, id) == ~\E e \in w.tq : e[3] = id

\* With the hung zio restarted whatever the failmode.
zio_deadman_hung_always(w, pio, failmode) ==
    LET P == w.z[pio]
    IN  IF /\ P.io_vd
           /\ P.io_child_list = <<>>
           /\ taskq_empty_ent(w, pio)
           /\ P.io_queue_state = "ACTIVE"
        THEN zio_taskq_dispatch([w EXCEPT !.z[pio].io_error = "EINTR"],
                                pio, "INTERRUPT")
        ELSE w

\* zio_deadman_impl() before it takes pio's lock: with failmode "continue" a
\* leaf vdev zio that is active in the device queue is failed with EINTR and
\* sent on to the interrupt taskq.  The device has not been told.
zio_deadman_hung(w, pio, failmode) ==
    LET P == w.z[pio]
    IN  IF /\ P.io_vd
           /\ P.io_child_list = <<>>
           /\ failmode = "CONTINUE"
           /\ taskq_empty_ent(w, pio)
           /\ P.io_queue_state = "ACTIVE"
        THEN zio_taskq_dispatch([w EXCEPT !.z[pio].io_error = "EINTR"],
                                pio, "INTERRUPT")
        ELSE w

\* cv_timedwait_io() in zio_wait() times out on a zio that has been queued
\* for too long, and the pool is not suspended: zio_deadman(zio).
ZioDeadman(t) ==
    /\ Running(t, "wait")
    /\ ~spa_suspended
    /\ LET id == Top(t).z
       IN  /\ zio[id].io_executor # NoThread
           /\ Commit(zio_deadman_hung(World(t), id, spa_deadman_failmode))
           /\ stack' = [stack EXCEPT ![t] =
                 <<Frame("deadman_lock", id, <<>>)>> \o @]
    /\ UNCHANGED <<call, spa_deadman_failmode, spa_failmode, faults,
                   wait_result, created>>

\* mutex_enter(&pio->io_lock), whatever locks the walk holds already.
ZioDeadmanLock(t) ==
    /\ Running(t, "deadman_lock")
    /\ LET pio == Top(t).z
       IN  /\ mutex_free(zio, pio)
           /\ zio' = mutex_enter(zio, pio, t)
           /\ stack' = [stack EXCEPT ![t] =
                 <<Frame("deadman_walk", pio, list_head(zio[pio].io_child_list))>>
                 \o Tail(@)]
    /\ UNCHANGED <<call, spa_deadman_failmode, ddt, metaslab,
                   taskq, device, spa_suspended,
                   spa_suspend_zio_root, spa_failmode, faults, wait_result,
                   created>>

\* The loop over pio's children, pio's lock held: zio_deadman_impl(cio) for
\* the next child, or the end of the loop.
ZioDeadmanWalk(t) ==
    /\ Running(t, "deadman_walk")
    /\ LET pio == Top(t).z
           cur == Top(t).cur
       IN  IF cur # <<>>
           THEN LET cio == cur[1]
                    cio_next == list_next(zio[pio].io_child_list, cio)
                IN  /\ Commit(zio_deadman_hung(World(t), cio,
                                                spa_deadman_failmode))
                    /\ stack' = [stack EXCEPT ![t] =
                          <<Frame("deadman_lock", cio, <<>>),
                            Frame("deadman_walk", pio, cio_next)>> \o Tail(@)]
           ELSE /\ zio' = mutex_exit(zio, pio)
                /\ stack' = [stack EXCEPT ![t] = Tail(@)]
                /\ UNCHANGED <<taskq, device, spa_suspended,
                               spa_suspend_zio_root, ddt, metaslab>>
    /\ UNCHANGED <<call, spa_deadman_failmode, spa_failmode, faults,
                   wait_result, created>>

\* ------------------------------------------------------ taskqs and device
\* The taskqs are per zio type: writes have issue workers of their own,
\* and zio_reexecute() goes to a taskq no zio is issued on.
TaskqServes(t, e) ==
    /\ e[1] = TaskqOf(t)
    /\ e[1] = "ISSUE" =>
            (t = "wissue") = /\ e[2] = "zio_execute"
                             /\ zio[e[3]].alive
                             /\ zio[e[3]].io_type = "WRITE"

\* A worker of the entry's taskq picks it up.
TaskqRun(t) ==
    /\ Idle(t)
    /\ \E e \in taskq :
        /\ taskq' = taskq \ {e}
        /\ TaskqServes(t, e)
        /\ zio' = zio
        /\ stack' = [stack EXCEPT ![t] =
              <<Frame(IF e[2] = "zio_execute" THEN "exec" ELSE "zio_reexecute",
                      e[3], <<>>)>>]
    /\ UNCHANGED <<call, spa_deadman_failmode, ddt, metaslab,
                   device, spa_suspended,
                   spa_suspend_zio_root, spa_failmode, faults, wait_result,
                   created>>

\* The device completes a leaf zio, with or without an error: zio_interrupt().
DeviceErrors == {"ENXIO", "EIO"}

DeviceDone(id, e) ==
    /\ id \in device
    /\ e # E0 => faults < MaxFaults
    /\ faults' = IF e # E0 THEN faults + 1 ELSE faults
    /\ device' = device \ {id}
    /\ zio' = IF zio[id].alive THEN [zio EXCEPT ![id].io_error = e] ELSE zio
    /\ taskq' = taskq \cup {<<"INTERRUPT", "zio_execute", id>>}
    /\ UNCHANGED <<call, spa_deadman_failmode, ddt, metaslab,
                   stack, spa_suspended,
                   spa_suspend_zio_root, spa_failmode, wait_result, created>>

\* ---------------------------------------------------------------- callers
\* zio_root(), zio_null() and zio_read() under a parent that has not been
\* submitted yet.
Kinds == {"root", "null", "read"}

\* The flag sets callers pass: none, can-fail, and can-fail without retry (a
\* speculative read).
CallerFlags == {{}, {"CANFAIL"}, {"CANFAIL", "DONT_RETRY"}}

ZioCreate(kind, pio, flags) ==
    /\ created < MaxZio
    /\ kind = "root" => pio = <<>>
    /\ kind # "read" => "DONT_RETRY" \notin flags
    /\ pio # <<>> => /\ pio[1] \in CallerIds
                      /\ Submittable(pio[1])
                      /\ mutex_free(zio, pio[1])
    /\ LET id == created + 1
       IN  zio' =
             CASE kind = "root" -> zio_root(zio, id, flags)
               [] kind = "null" ->
                    zio_create(zio, id, pio, "NULL", "LOGICAL", flags,
                               ZIO_STAGE_OPEN, ZIO_INTERLOCK_PIPELINE,
                               FALSE, FALSE, FALSE)
               [] kind = "read" ->
                    zio_create(zio, id, pio, "READ", "LOGICAL", flags,
                               ZIO_STAGE_OPEN, ZIO_READ_PIPELINE,
                               FALSE, FALSE, TRUE)
    /\ created' = created + 1
    /\ UNCHANGED <<call, spa_deadman_failmode, ddt, metaslab,
                   taskq, stack, device,
                   spa_suspended, spa_suspend_zio_root, spa_failmode, faults,
                   wait_result>>

\* zio_write() by a caller: a write of data "A" or "B", plain or dedup (a
\* checksum too weak to dedup on asks for verification), on its own or under
\* a parent that has not been submitted yet.
WriteProps ==
    {zp \in [zp_dedup : BOOLEAN, zp_dedup_verify : BOOLEAN,
             zp_checksum : Checksums, zp_direct_write : {FALSE}] :
        /\ zp.zp_dedup_verify => zp.zp_dedup
        /\ zp.zp_dedup => \/ zp.zp_checksum \in ZCHECKSUM_FLAG_DEDUP
                          \/ zp.zp_dedup_verify
        /\ ~zp.zp_dedup => zp.zp_checksum = "fletcher4"}

ZioWrite(zp, abd, flags, pio) ==
    /\ created < MaxZio
    /\ pio = <<>> => created < MaxWrites
    /\ pio # <<>> => /\ pio[1] \in CallerIds
                      /\ Submittable(pio[1])
                      /\ mutex_free(zio, pio[1])
    /\ zio' = zio_write(zio, created + 1, pio, flags, zp, abd, FALSE, FALSE)
    /\ created' = created + 1
    /\ UNCHANGED <<call, spa_deadman_failmode, ddt, metaslab,
                   taskq, stack,
                   device, spa_suspended, spa_suspend_zio_root, spa_failmode,
                   faults, wait_result>>

\* ------------------------------------------------------------------- spec
InitPipeline ==
    /\ zio = zio_root([id \in AllIds |-> NoZio], spa_async_zio_root,
                      {"CANFAIL", "SPECULATIVE", "GODFATHER"})
    /\ taskq = {}
    /\ stack = [t \in Threads |-> <<>>]
    /\ device = {}
    /\ spa_suspended = FALSE
    /\ spa_suspend_zio_root = <<>>
    /\ metaslab = [mc \in Classes |-> [mca_tree |-> {}, mca_reserved |-> 0]]
    /\ faults = 0
    /\ wait_result = [id \in AllIds |-> <<>>]
    /\ created = 0

\* The deadman only logs (zfs_deadman_failmode=wait, the default): it changes
\* no state and has no action here.
Init ==
    /\ InitPipeline
    /\ spa_failmode \in {"WAIT", "CONTINUE"}
    /\ spa_deadman_failmode = "WAIT"
    /\ ddt = NoDdt
    /\ call = <<>>

Next ==
    \/ \E kind \in Kinds, pio \in {<<>>} \cup {<<p>> : p \in CallerIds},
          flags \in CallerFlags : ZioCreate(kind, pio, flags)
    \/ \E id \in CallerIds : ZioWait("caller", id)
    \/ \E id \in CallerIds : ZioNowait("caller", id)
    \/ \E t \in Threads : ZioExecute(t)
    \/ \E t \in Threads : ZioWaitReturn(t)
    \/ \E t \in {"issue", "intr"} : TaskqRun(t)
    \/ \E t \in Threads : ZioReexecuteEnter(t)
    \/ \E t \in Threads : ZioReexecute(t)
    \/ ZioResume("admin")
    \/ \E t \in Threads : ZioWaitResumed(t)
    \/ \E id \in VdevIds, e \in {E0} \cup DeviceErrors : DeviceDone(id, e)

Spec == Init /\ [][Next]_vars

\* ------------------------------------------------ the deadman in zio_wait
\* Reads that callers wait for and that may fail, zio_wait() timing out into
\* the deadman under either failmode.
InitDeadman ==
    /\ InitPipeline
    /\ spa_failmode \in {"WAIT", "CONTINUE"}
    /\ spa_deadman_failmode \in {"WAIT", "CONTINUE"}
    /\ ddt = NoDdt
    /\ call = <<>>

NextDeadman ==
    \/ \E flags \in CallerFlags \ {{}} : ZioCreate("read", <<>>, flags)
    \/ \E id \in CallerIds : ZioWait("caller", id)
    \/ \E t \in Threads : ZioExecute(t)
    \/ \E t \in Threads : ZioWaitReturn(t)
    \/ \E t \in {"issue", "intr"} : TaskqRun(t)
    \/ \E t \in Threads : ZioDeadman(t)
    \/ \E t \in Threads : ZioDeadmanLock(t)
    \/ \E t \in Threads : ZioDeadmanWalk(t)
    \/ \E id \in VdevIds, e \in {E0} \cup DeviceErrors : DeviceDone(id, e)

SpecDeadman == InitDeadman /\ [][NextDeadman]_vars

\* ------------------------------------------------------- the zio locks
\* Roots and reads that must not fail, so that an error suspends the pool;
\* zio_resume() reexecutes the suspended tree taking its locks one by one
\* while a waiter's deadman (which only logs) walks the same tree.
InitLocks ==
    /\ InitPipeline
    /\ spa_failmode \in {"WAIT", "CONTINUE"}
    /\ spa_deadman_failmode = "WAIT"
    /\ ddt = NoDdt
    /\ call = <<>>

NextLocks ==
    \/ \E kind \in {"root", "read"}, pio \in {<<>>} \cup {<<p>> : p \in CallerIds} :
          ZioCreate(kind, pio, {})
    \/ \E id \in CallerIds : ZioWait("caller", id)
    \/ \E id \in CallerIds : ZioNowait("caller", id)
    \/ \E t \in Threads : ZioExecute(t)
    \/ \E t \in Threads : ZioWaitReturn(t)
    \/ \E t \in {"issue", "intr"} : TaskqRun(t)
    \/ \E t \in Threads : ZioReexecuteReset(t)
    \/ \E t \in Threads : ZioReexecuteLockParent(t)
    \/ \E t \in Threads : ZioReexecuteCountParent(t)
    \/ \E t \in Threads : ZioReexecuteParentsDone(t)
    \/ \E t \in Threads : ZioReexecute(t)
    \/ ZioResume("admin")
    \/ \E t \in Threads : ZioWaitResumed(t)
    \/ \E t \in Threads : ZioDeadman(t)
    \/ \E t \in Threads : ZioDeadmanLock(t)
    \/ \E t \in Threads : ZioDeadmanWalk(t)
    \/ \E id \in VdevIds, e \in {E0} \cup DeviceErrors : DeviceDone(id, e)

SpecLocks == InitLocks /\ [][NextLocks]_vars

\* -------------------------------------------------------------- the writes
\* A write, plain or dedup, that the caller waits for or not; the block may
\* be in the dedup table already, under either checksum.
InitWrite ==
    /\ InitPipeline
    /\ spa_failmode = "WAIT"
    /\ spa_deadman_failmode = "WAIT"
    /\ ddt \in {NoDdt} \cup
               {[NoDdt EXCEPT ![ck].dde_phys = 1, ![ck].abd = "A"] :
                    ck \in Checksums}
    /\ call = <<>>

NextWrite ==
    \/ \E zp \in WriteProps, abd \in {"A", "B"},
          flags \in {{"CANFAIL"}, {"CANFAIL", "RAW"}} :
              ZioWrite(zp, abd, flags, <<>>)
    \/ \E id \in CallerIds : ZioWait("caller", id)
    \/ \E id \in CallerIds : ZioNowait("caller", id)
    \/ \E t \in Threads : ZioExecute(t)
    \/ \E t \in Threads : ZioDdtWrite(t)
    \/ \E t \in Threads : ZioWaitReturn(t)
    \/ \E t \in {"issue", "wissue", "intr"} : TaskqRun(t)
    \/ \E id \in VdevIds, e \in {E0, "EIO"} : DeviceDone(id, e)

\* The scheduling the pipeline relies on.  A taskq worker that is free takes
\* a queued entry, the device answers every zio it was given, and a waiter
\* that has been woken returns.  A thread inside __zio_execute() goes on
\* running: that is weak fairness of ZioExecute(t) and of ZioDdtWrite(t),
\* written out with the condition under which each can take a step
\* (CanExecute, CanDdtWrite), the rest of either action being assignments.
FairWrite ==
    /\ \A t \in {"issue", "wissue", "intr"} : WF_vars(TaskqRun(t))
    /\ \A id \in VdevIds : WF_vars(\E e \in {E0, "EIO"} : DeviceDone(id, e))
    /\ \A t \in Threads : WF_vars(ZioWaitReturn(t))
    /\ \A t \in Threads :
          []<>~CanExecute(t) \/ []<><<ZioExecute(t)>>_vars
    /\ \A t \in Threads :
          []<>~CanDdtWrite(t) \/ []<><<ZioDdtWrite(t)>>_vars

SpecWrite == InitWrite /\ [][NextWrite]_vars /\ FairWrite

\* --------------------------------------------------- suspend and resume
\* A plain write, with or without the can-fail flag, on its own or under a
\* root; the allocator may be out of space and the device may fail; the
\* pool is resumed from outside.
PlainWrite == [zp_dedup |-> FALSE, zp_dedup_verify |-> FALSE,
               zp_checksum |-> "fletcher4", zp_direct_write |-> FALSE]

InitSuspend ==
    /\ InitPipeline
    /\ spa_failmode = "WAIT"
    /\ spa_deadman_failmode = "WAIT"
    /\ ddt = NoDdt
    /\ call = <<>>

NextSuspend ==
    \/ \E flags \in {{}, {"CANFAIL"}} : ZioCreate("root", <<>>, flags)
    \/ \E flags \in {{}, {"CANFAIL"}},
          pio \in {<<>>} \cup {<<p>> : p \in CallerIds} :
              ZioWrite(PlainWrite, "A", flags, pio)
    \/ \E id \in CallerIds : ZioWait("caller", id)
    \/ \E id \in CallerIds : ZioNowait("caller", id)
    \/ \E t \in Threads : ZioExecute(t)
    \/ \E t \in Threads : ZioWaitReturn(t)
    \/ \E t \in {"issue", "wissue", "intr"} : TaskqRun(t)
    \/ \E t \in Threads : ZioReexecuteEnter(t)
    \/ \E t \in Threads : ZioReexecute(t)
    \/ ZioResume("admin")
    \/ \E t \in Threads : ZioWaitResumed(t)
    \/ \E id \in VdevIds, e \in {E0, "EIO"} : DeviceDone(id, e)
    \/ ZioResumeWait("caller")
    \/ ZioResumeWaitReturn("caller")

SpecSuspend == InitSuspend /\ [][NextSuspend]_vars

\* ------------------------------------------------ the async root waited for
\* Roots and reads, and the pool ends by waiting for its async root: zio_wait() of
\* spa_async_zio_root, after which no zio is issued with zio_nowait().
NextAsync ==
    \/ \E kind \in {"root", "read"}, pio \in {<<>>} \cup {<<p>> : p \in CallerIds},
          flags \in {{}, {"CANFAIL"}} : ZioCreate(kind, pio, flags)
    \/ \E id \in CallerIds : ZioWait("caller", id)
    \/ \E id \in CallerIds :
          Submittable(spa_async_zio_root) /\ ZioNowait("caller", id)
    \/ ZioWait("admin", spa_async_zio_root)
    \/ \E t \in Threads : ZioExecute(t)
    \/ \E t \in Threads : ZioWaitReturn(t)
    \/ \E t \in {"issue", "intr"} : TaskqRun(t)
    \/ \E t \in Threads : ZioReexecuteEnter(t)
    \/ \E t \in Threads : ZioReexecute(t)
    \/ ZioResume("admin")
    \/ \E t \in Threads : ZioWaitResumed(t)
    \/ \E id \in VdevIds, e \in {E0} \cup DeviceErrors : DeviceDone(id, e)

SpecAsync == InitSuspend /\ [][NextAsync]_vars

\* ---------------------------------------------------- Direct I/O writes
\* dmu_write_direct(): a Direct I/O write that may fail, waited for; the
\* device may fail and the checksum of what was written may not verify.
DirectWrite == [PlainWrite EXCEPT !.zp_direct_write = TRUE]

NextDirect ==
    \/ ZioWrite(DirectWrite, "A", {"CANFAIL"}, <<>>)
    \/ \E id \in CallerIds : ZioWait("caller", id)
    \/ \E t \in Threads : ZioExecute(t)
    \/ \E t \in Threads : ZioWaitReturn(t)
    \/ \E t \in {"issue", "wissue", "intr"} : TaskqRun(t)
    \/ \E id \in VdevIds, e \in {E0, "EIO"} : DeviceDone(id, e)

SpecDirect == InitSuspend /\ [][NextDirect]_vars

\* ------------------------------------------- zio_worst_error() on its own
\* Every pair of error codes, and the function applied to it both ways round.
InitWorst ==
    /\ InitPipeline
    /\ spa_failmode \in {"WAIT", "CONTINUE"}
    /\ spa_deadman_failmode = "WAIT"
    /\ ddt = NoDdt
    /\ call \in [e1 : Errors, e2 : Errors, ret : {<<>>}, swapped : {<<>>}]

WorstError ==
    /\ call.ret = <<>>
    /\ call' = [call EXCEPT !.ret = <<zio_worst_error(call.e1, call.e2)>>]
    /\ UNCHANGED pipeline_vars

WorstErrorSwapped ==
    /\ call.swapped = <<>>
    /\ call' = [call EXCEPT !.swapped = <<zio_worst_error(call.e2, call.e1)>>]
    /\ UNCHANGED pipeline_vars

NextWorst == WorstError \/ WorstErrorSwapped

SpecWorst == InitWorst /\ [][NextWorst]_vars

\* ------------------------------------------------------------ gang blocks
\* A gang block on its own: the gang leader gio of a read, rewrite, free or
\* claim goes through GANG_ASSEMBLE and GANG_ISSUE.  call is gio with its gang
\* tree, the gang header reads in flight and the record of the issue
\* callbacks invoked.  A block pointer is named by its path from the leader's
\* block pointer <<>>: slot g of the header at p is p \o <<g>>.
GangDepth == 2
\* Block pointers in a gang header.
gbh_nblkptrs == 3
GangPaths == UNION {[1..n -> 1..gbh_nblkptrs] : n \in 0..GangDepth}
HeaderPaths == {p \in GangPaths : Len(p) < GangDepth}
\* What the device may hold in a slot of the header at p.
SlotKinds(p) ==
    IF Len(p) + 1 < GangDepth THEN {"hole", "data", "gang"} ELSE {"hole", "data"}
Headers(p) == [1..gbh_nblkptrs -> SlotKinds(p)]
\* *gnpp == NULL, and a node whose gn_gbh has not been read.
NoNode == <<>>
Unread == <<"unread">>
Assembled(G, p) == p \in HeaderPaths /\ G.gn[p] \notin {NoNode, Unread}

\* zio_gang_node_alloc() and zio_nowait(zio_read(gio, ...)) of the header.
zio_gang_tree_assemble(G, p) ==
    [G EXCEPT !.gn[p] = Unread,
              !.reads = @ \cup {p},
              !.io_children = @ + 1]

\* The loop of zio_gang_tree_assemble_done() from slot g on.
RECURSIVE AssembleChildren(_, _, _)
AssembleChildren(G, p, g) ==
    IF g > gbh_nblkptrs THEN G
    ELSE AssembleChildren(
            IF G.gn[p][g] = "gang"
            THEN zio_gang_tree_assemble(G, p \o <<g>>) ELSE G,
            p, g + 1)

\* With the nested gang headers left unread.
zio_gang_tree_assemble_done_flat(G, p, e, h) ==
    IF e # E0 THEN G ELSE [G EXCEPT !.gn[p] = h]

\* The io_done callback of a header read: the header is in gn_gbh.
zio_gang_tree_assemble_done(G, p, e, h) ==
    IF e # E0 THEN G
    ELSE AssembleChildren([G EXCEPT !.gn[p] = h], p, 1)

\* With the holes issued too.
RECURSIVE zio_gang_tree_issue_holes(_, _)
zio_gang_tree_issue_holes(G, p) ==
    LET F[g \in 0..gbh_nblkptrs] ==
            IF g = 0 THEN <<>>
            ELSE F[g - 1] \o zio_gang_tree_issue_holes(G, p \o <<g>>)
    IN  <<[func |-> G.io_type, bp |-> p]>>
        \o (IF Assembled(G, p) THEN F[gbh_nblkptrs] ELSE <<>>)

\* zio_gang_tree_issue(): the callbacks in the order they are invoked.
RECURSIVE zio_gang_tree_issue(_, _)
zio_gang_tree_issue(G, p) ==
    LET F[g \in 0..gbh_nblkptrs] ==
            IF g = 0 THEN <<>>
            ELSE IF G.gn[p][g] = "hole" THEN F[g - 1]
            ELSE F[g - 1] \o zio_gang_tree_issue(G, p \o <<g>>)
    IN  <<[func |-> G.io_type, bp |-> p]>>
        \o (IF Assembled(G, p) THEN F[gbh_nblkptrs] ELSE <<>>)

zio_gang_tree_free(G) == [G EXCEPT !.gn = [p \in HeaderPaths |-> NoNode]]

\* zio_gang_assemble(): gio becomes its own gang leader.
ZioGangAssemble ==
    /\ call.io_stage = "GANG_ASSEMBLE"
    /\ call' = [zio_gang_tree_assemble(call, <<>>) EXCEPT
                    !.io_stage = "GANG_ISSUE"]
    /\ UNCHANGED pipeline_vars

\* zio_done() of the read of header p: its callback, then
\* zio_notify_parent(gio, zio, ZIO_WAIT_DONE).
ZioGangReadDone(p, e, h) ==
    /\ p \in call.reads
    /\ LET G1 == zio_gang_tree_assemble_done(call, p, e, h)
           n == G1.io_children - 1
       IN  call' = [G1 EXCEPT
                !.reads = @ \ {p},
                !.io_child_error = IF e # E0 THEN zio_worst_error(@, e) ELSE @,
                !.io_children = n,
                !.io_stall = IF n = 0 THEN FALSE ELSE @]
    /\ UNCHANGED pipeline_vars

\* zio_gang_issue(): stalls on the gang children, then issues or frees.
ZioGangIssue ==
    /\ call.io_stage = "GANG_ISSUE"
    /\ ~call.io_stall
    /\ call' = IF call.io_children # 0
               THEN [call EXCEPT !.io_stall = TRUE]
               ELSE IF call.io_child_error = E0
               THEN [call EXCEPT !.issued = zio_gang_tree_issue(call, <<>>),
                                 !.io_stage = "DONE"]
               ELSE [zio_gang_tree_free(call) EXCEPT !.io_stage = "DONE"]
    /\ UNCHANGED pipeline_vars

InitGang ==
    /\ InitPipeline
    /\ spa_failmode = "WAIT"
    /\ spa_deadman_failmode = "WAIT"
    /\ ddt = NoDdt
    /\ call \in [io_type : {"READ", "WRITE", "FREE", "CLAIM"},
                 io_stage : {"GANG_ASSEMBLE"},
                 io_stall : {FALSE},
                 io_children : {0},
                 io_child_error : {E0},
                 gn : {[p \in HeaderPaths |-> NoNode]},
                 reads : {{}},
                 issued : {<<>>}]

NextGang ==
    \/ ZioGangAssemble
    \/ \E p \in HeaderPaths, e \in {E0, "EIO"} : \E h \in Headers(p) :
          ZioGangReadDone(p, e, h)
    \/ ZioGangIssue

SpecGang == InitGang /\ [][NextGang]_vars

\* ------------------------------------------------------------ gang writes
\* An allocating write on its own, ganged where the allocator is short of
\* space.  call holds the zios of the write by the path of their block
\* pointer: the zio at <<>> is the logical write, which becomes the gang
\* leader, and the zio at p \o <<g>> is the gang member whose io_bp is slot g
\* of the gang header of the zio at p.  Sizes are in units of spa_min_alloc.
MaxSize == 4
spa_min_alloc == 1
\* A gang node, its gn_gbh being the slots below it in bp.
Node == <<"gbh">>
NoGangZio == [io_stage |-> "NONE", io_size |-> 0, prealloc |-> FALSE,
              io_error |-> E0]

\* metaslab_alloc() and metaslab_alloc_range() taking the block for bp p.
metaslab_alloc(W, p) ==
    [W EXCEPT !.bp[p] = "dva",
              !.space[p] = "allocated",
              !.nalloc[p] = @ + 1]

\* metaslab_free() of the block of bp p.
metaslab_free(W, p) ==
    [W EXCEPT !.space[p] = "free",
              !.nfree[p] = @ + 1]

\* The size metaslab_alloc_range() allocates between min_size and max_size
\* when it finds this much room; 0 stands for its error.
metaslab_alloc_range(min_size, max_size, room) ==
    IF room = 0 THEN 0
    ELSE IF room < min_size THEN min_size
    ELSE IF room > max_size THEN max_size
    ELSE room

\* MIN(zio_roundup_alloc_size(spa, resid / k), resid).
MemberMinSize(resid, k) ==
    LET s == (resid + k - 1) \div k
        r == IF s > spa_min_alloc THEN s ELSE spa_min_alloc
    IN  IF r < resid THEN r ELSE resid

\* zio_write() of the member at slot q and zio_nowait() of it: zio_create()
\* keeps the block pointer in io_bp_orig and takes the DVAs of a preallocated
\* one out of io_bp.
zio_write_gang_member(W, q, psize, allocated) ==
    [W EXCEPT !.io[q] = [io_stage |-> "OPEN", io_size |-> psize,
                         prealloc |-> allocated, io_error |-> E0],
              !.bp_orig[q] = W.bp[q],
              !.bp[q] = IF allocated THEN "hole" ELSE @]

\* The loop of zio_write_gang_block() over the members, from slot g on.
RECURSIVE GangMembers(_, _, _, _, _)
GangMembers(W, p, g, resid, room) ==
    IF resid = 0 THEN W
    ELSE LET q == p \o <<g>>
             min_size == MemberMinSize(resid, gbh_nblkptrs - (g - 1))
             size == metaslab_alloc_range(min_size, resid, room[g])
             allocated == size # 0
             psize == IF allocated THEN size ELSE min_size
             W1 == IF allocated THEN metaslab_alloc(W, q) ELSE W
         IN  GangMembers(zio_write_gang_member(W1, q, psize, allocated),
                         p, g + 1, resid - psize, room)

\* zio_write_gang_block() of the zio at p: hdr_ok is the allocation of the
\* gang header, room[g] what the allocator finds for member g.
zio_write_gang_block(W, p, hdr_ok, room) ==
    IF ~hdr_ok
    THEN [W EXCEPT !.io[p].io_error = "ENOSPC",
                   !.io[p].io_stage = "INTERLOCK"]
    ELSE LET W1 == metaslab_alloc(W, p)
             W2 == [W1 EXCEPT !.gn[p] = Node,
                              !.hdr[p] = [io_stage |-> "OPEN", io_error |-> E0],
                              !.io[p].io_stage = "INTERLOCK"]
         IN  GangMembers(W2, p, 1, W.io[p].io_size, room)

\* zio_dva_allocate() of the zio at p; ok is its own allocation.  A gang
\* nested deeper than GangDepth is not followed: the allocation fails.
zio_dva_allocate_gang(W, p, ok, hdr_ok, room) ==
    IF W.io[p].prealloc
    THEN [W EXCEPT !.bp[p] = W.bp_orig[p],
                   !.io[p].io_stage = "VDEV_IO"]
    ELSE IF ok
    THEN [metaslab_alloc(W, p) EXCEPT !.io[p].io_stage = "VDEV_IO"]
    ELSE IF W.io[p].io_size > spa_min_alloc /\ p \in HeaderPaths
    THEN zio_write_gang_block(W, p, hdr_ok, room)
    ELSE [W EXCEPT !.io[p].io_error = "ENOSPC",
                   !.io[p].io_stage = "INTERLOCK"]

\* With the gang tree left unwalked.
zio_dva_unallocate_leader(W, p) ==
    IF W.bp[p] # "hole" THEN metaslab_free(W, p) ELSE W

\* zio_dva_unallocate(zio, gn, bp) for the block pointer at p.
RECURSIVE zio_dva_unallocate(_, _)
zio_dva_unallocate(W, p) ==
    LET W1 == IF W.bp[p] # "hole" THEN metaslab_free(W, p) ELSE W
        F[g \in 0..gbh_nblkptrs] ==
            IF g = 0 THEN W1 ELSE zio_dva_unallocate(F[g - 1], p \o <<g>>)
    IN  IF p \in HeaderPaths /\ W.gn[p] # NoNode THEN F[gbh_nblkptrs] ELSE W1

\* zio_gang_tree_free(&zio->io_gang_tree) of the gang leader.
zio_gang_write_tree_free(W) == [W EXCEPT !.gn = [p \in HeaderPaths |-> NoNode]]

\* The worst error of the gang members below the header at p.
GangChildError(W, p) ==
    LET F[g \in 0..gbh_nblkptrs] ==
            IF g = 0 THEN E0
            ELSE zio_worst_error(F[g - 1], W.io[p \o <<g>>].io_error)
    IN  F[gbh_nblkptrs]

\* zio_done() of the zio at p once its children are done; e is what the
\* device made of its write.  Only the logical write is its own io_logical
\* and its own io_gang_leader; it is neither an IO_REWRITE nor a NOPWRITE.
zio_done_gang_write(W, p, e) ==
    LET own == IF W.io[p].io_stage = "VDEV_IO" THEN e ELSE W.io[p].io_error
        child == IF p \in HeaderPaths THEN W.hdr[p].io_error ELSE E0
        err == zio_worst_error(own, child)
        Zr == [io_flags |-> W.io_flags, io_post |-> W.io_post,
               io_error |-> err, io_type |-> "WRITE",
               io_orig_pipeline |-> {ZIO_STAGE_DVA_ALLOCATE}]
        post == IF p = <<>> /\ err # E0 THEN PostOnError(Zr, "WAIT")
                ELSE W.io_post
        W1 == [W EXCEPT !.io[p].io_error = err,
                        !.io[p].io_stage = "DONE",
                        !.io_post = post]
        W2 == IF /\ err # E0 \/ post \cap {"REEXECUTE", "SUSPEND"} # {}
                 /\ IO_IS_ALLOCATING(Zr)
                 /\ p = <<>>
              THEN zio_dva_unallocate(W1, <<>>) ELSE W1
    IN  IF p = <<>> THEN zio_gang_write_tree_free(W2) ELSE W2

\* What the allocator may answer the zio at p, one of each answer that
\* zio_dva_allocate() tells apart.
AllocOutcomes(W, p) ==
    LET none == [g \in 1..gbh_nblkptrs |-> 0]
        gangs == W.io[p].io_size > spa_min_alloc /\ p \in HeaderPaths
    IN  IF W.io[p].prealloc
        THEN {[ok |-> TRUE, hdr_ok |-> TRUE, room |-> none]}
        ELSE {[ok |-> TRUE, hdr_ok |-> TRUE, room |-> none],
              [ok |-> FALSE, hdr_ok |-> FALSE, room |-> none]}
             \cup (IF gangs
                   THEN {[ok |-> FALSE, hdr_ok |-> TRUE, room |-> r] :
                           r \in [1..gbh_nblkptrs -> 0..W.io[p].io_size]}
                   ELSE {})

ZioDvaAllocate(p, ok, hdr_ok, room) ==
    /\ call.io[p].io_stage = "OPEN"
    /\ call' = zio_dva_allocate_gang(call, p, ok, hdr_ok, room)
    /\ UNCHANGED pipeline_vars

\* zio_done() of the rewrite of the gang header at p, which waits for the
\* members.
ZioGangHeaderDone(p, e) ==
    /\ call.hdr[p].io_stage = "OPEN"
    /\ \A g \in 1..gbh_nblkptrs :
          call.io[p \o <<g>>].io_stage \in {"NONE", "DONE"}
    /\ call' = [call EXCEPT !.hdr[p] =
                    [io_stage |-> "DONE",
                     io_error |-> zio_worst_error(e, GangChildError(call, p))]]
    /\ UNCHANGED pipeline_vars

\* The device write of the zio at p, if it has one, and its zio_done(), which
\* waits for the gang header.
ZioGangWriteDone(p, e) ==
    /\ call.io[p].io_stage \in {"VDEV_IO", "INTERLOCK"}
    /\ call.io[p].io_stage = "INTERLOCK" => e = E0
    /\ p \in HeaderPaths => call.hdr[p].io_stage # "OPEN"
    /\ call' = zio_done_gang_write(call, p, e)
    /\ UNCHANGED pipeline_vars

\* The logical write about to allocate; a logical child that is done may
\* have left its reexecute mark.
InitGangWrite ==
    /\ InitPipeline
    /\ spa_failmode = "WAIT"
    /\ spa_deadman_failmode = "WAIT"
    /\ ddt = NoDdt
    /\ call \in {[io |-> [p \in GangPaths |->
                            IF p = <<>>
                            THEN [io_stage |-> "OPEN", io_size |-> s,
                                  prealloc |-> FALSE, io_error |-> E0]
                            ELSE NoGangZio],
                  hdr |-> [p \in HeaderPaths |->
                              [io_stage |-> "NONE", io_error |-> E0]],
                  bp |-> [p \in GangPaths |-> "hole"],
                  bp_orig |-> [p \in GangPaths |-> "hole"],
                  gn |-> [p \in HeaderPaths |-> NoNode],
                  space |-> [p \in GangPaths |-> "free"],
                  nalloc |-> [p \in GangPaths |-> 0],
                  nfree |-> [p \in GangPaths |-> 0],
                  io_flags |-> f,
                  io_post |-> m] :
                s \in 1..MaxSize, f \in {{}, {"CANFAIL"}},
                m \in {{}, {"REEXECUTE"}}}

NextGangWrite ==
    \/ \E p \in GangPaths : \E a \in AllocOutcomes(call, p) :
          ZioDvaAllocate(p, a.ok, a.hdr_ok, a.room)
    \/ \E p \in HeaderPaths, e \in {E0, "EIO"} : ZioGangHeaderDone(p, e)
    \/ \E p \in GangPaths, e \in {E0, "EIO"} : ZioGangWriteDone(p, e)

SpecGangWrite == InitGangWrite /\ [][NextGangWrite]_vars

\* ---------------------------------------------------- gang member sizes
\* The loop of zio_write_gang_block() over the members on its own, a member
\* a step, with the arithmetic of the code on the sizes themselves.  call has
\* io_size of the zio ganged, spa_min_alloc and spa_gcd_alloc of its pool,
\* g and resid of the loop, and of every member created the resid and the
\* divisor it was sized from, its min_size, its psize and whether its block
\* was allocated ahead.  Small sizes stand for the byte counts; the header is
\* one of gbh_nblkptrs block pointers.
MaxGangSize == 8
GangAllocSizes == {<<1, 1>>, <<2, 1>>, <<2, 2>>, <<4, 1>>, <<4, 2>>, <<4, 4>>}

roundup(x, y) == ((x + y - 1) \div y) * y

zio_roundup_alloc_size(min_alloc, gcd_alloc, size) ==
    IF size > min_alloc THEN roundup(size, gcd_alloc) ELSE min_alloc

\* The divisor staying at the slots of the header.
zio_gang_min_size_fixed(resid, g, min_alloc, gcd_alloc) ==
    LET min_size == zio_roundup_alloc_size(min_alloc, gcd_alloc,
                                           resid \div gbh_nblkptrs)
    IN  IF min_size < resid THEN min_size ELSE resid

\* min_size of member g of the loop.
zio_gang_min_size(resid, g, min_alloc, gcd_alloc) ==
    LET min_size == zio_roundup_alloc_size(min_alloc, gcd_alloc,
                                           resid \div (gbh_nblkptrs - g))
    IN  IF min_size < resid THEN min_size ELSE resid

\* A write zio_dva_allocate() gangs: larger than spa_min_alloc, which
\* spa_gcd_alloc divides.
InitGangSize ==
    /\ InitPipeline
    /\ spa_failmode = "WAIT"
    /\ spa_deadman_failmode = "WAIT"
    /\ ddt = NoDdt
    /\ \E a \in GangAllocSizes : \E size \in (a[1] + 1)..MaxGangSize :
        call = [io_size |-> size, spa_min_alloc |-> a[1],
                spa_gcd_alloc |-> a[2], g |-> 0, resid |-> size,
                members |-> <<>>, stage |-> "DVA_ALLOCATE"]

\* One turn of the loop: room is what metaslab_alloc_range() finds.
ZioWriteGangMember(room) ==
    /\ call.stage = "DVA_ALLOCATE"
    /\ call.resid # 0
    /\ LET min_size == zio_gang_min_size(call.resid, call.g,
                                         call.spa_min_alloc,
                                         call.spa_gcd_alloc)
           allocated_size == metaslab_alloc_range(min_size, call.resid, room)
           allocated == allocated_size # 0
           psize == IF allocated
                    THEN IF call.resid < allocated_size THEN call.resid
                         ELSE allocated_size
                    ELSE min_size
       IN  call' = [call EXCEPT
                !.members = Append(@, [resid |-> call.resid,
                                       divisor |-> gbh_nblkptrs - call.g,
                                       min_size |-> min_size,
                                       psize |-> psize,
                                       allocated |-> allocated]),
                !.resid = @ - psize,
                !.g = @ + 1]
    /\ UNCHANGED pipeline_vars

\* The loop left: the zio waits for the gang header.
ZioWriteGangLoopEnd ==
    /\ call.stage = "DVA_ALLOCATE"
    /\ call.resid = 0
    /\ call' = [call EXCEPT !.stage = "INTERLOCK"]
    /\ UNCHANGED pipeline_vars

NextGangSize ==
    \/ \E room \in 0..MaxGangSize : ZioWriteGangMember(room)
    \/ ZioWriteGangLoopEnd

SpecGangSize == InitGangSize /\ [][NextGangSize]_vars

\* -------------------------------------------------------- dedup coordinator
\* Dedup writes of one content against its entry of a flat dedup table, on
\* their own.  call holds the logical writes io[i], the child write cio[i]
\* that write i issued, if any, and the entry.  A DVA of the entry is named by
\* the child write that allocated it, 0 for one that was on disk before.  A
\* parent in an io_parent_list is <<"L", i>> (logical) or <<"C", j>> (child).
MaxDedup == 3
SPA_DVAS_PER_BP == 3
DedupIds == 1..MaxDedup
NoDdtChild == [io_stage |-> "NONE", zp_copies |-> 0, io_error |-> E0,
               io_parent_list |-> <<>>]

\* ddt_phys_extend(): the DVAs of the block pointer fill the free slots.
RECURSIVE ddt_phys_extend(_, _, _)
ddt_phys_extend(ddp, j, n) ==
    IF n = 0 \/ Len(ddp) >= SPA_DVAS_PER_BP THEN ddp
    ELSE ddt_phys_extend(Append(ddp, j), j, n - 1)

\* ddt_phys_unextend(): the slots that orig does not hold are emptied.
ddt_phys_unextend(cur, orig) ==
    SubSeq(cur, 1, IF Len(orig) < Len(cur) THEN Len(orig) ELSE Len(cur))

\* zio_add_child(pio, cio) of a child write cio: pio goes to the head of its
\* io_parent_list.
zio_add_child_ddt(D, pio, cio) ==
    [D EXCEPT !.cio[cio].io_parent_list = list_insert_head(@, pio)]

\* zio_walk_parents(cio, &zl) with zl == NULL: the head of the list.
zio_walk_parents(D, cio) == Head(D.cio[cio].io_parent_list)

\* The children write i or child write j waits for.
DdtChildrenOf(D, pio) ==
    {k \in DedupIds : InList(D.cio[k].io_parent_list, pio)}

\* The tail of zio_ddt_write(): the write of need_dvas more copies through a
\* child that becomes the lead.
zio_ddt_write_issue(D, i, need_dvas) ==
    LET D1 == [D EXCEPT !.cio[i] = [io_stage |-> "OPEN",
                                    zp_copies |-> need_dvas,
                                    io_error |-> E0,
                                    io_parent_list |-> <<<<"L", i>>>>]]
        D2 == IF D.dde_lead_zio = <<>>
              THEN [D1 EXCEPT !.dde_orig_phys = D.dde_phys]
              ELSE zio_add_child_ddt(D1, <<"C", i>>, D.dde_lead_zio[1])
    IN  [D2 EXCEPT !.dde_lead_zio = <<i>>]

\* zio_ddt_write() of logical write i, under the lock of the table; the
\* entry is found, nothing is to be verified and no override is brought.
\* parent_dvas is kept with the write as the function computed it.
zio_ddt_write_copies(D, i) ==
    LET have_dvas == Len(D.dde_phys)
        need_dvas == D.io[i].zp_copies
        lead == D.dde_lead_zio
        pio == zio_walk_parents(D, lead[1])
        parent_dvas == D.io[pio[2]].zp_copies
        D0 == [D EXCEPT !.io[i].io_stage = "DDT_WRITE"]
    IN  IF lead = <<>>
        THEN IF have_dvas >= need_dvas
             THEN [D0 EXCEPT !.refcnt = @ + 1]
             ELSE zio_ddt_write_issue(D0, i, need_dvas - have_dvas)
        ELSE IF have_dvas >= need_dvas
        THEN zio_add_child_ddt(D0, <<"L", i>>, lead[1])
        ELSE IF parent_dvas >= need_dvas
        THEN zio_add_child_ddt([D0 EXCEPT !.io[i].parent_dvas = <<parent_dvas>>],
                               <<"L", i>>, lead[1])
        ELSE zio_ddt_write_issue(
                [D0 EXCEPT !.io[i].parent_dvas = <<parent_dvas>>],
                i, need_dvas - parent_dvas)

\* zio_ddt_child_write_ready() of child write j.
zio_ddt_child_write_ready_copies(D, j) ==
    IF D.cio[j].io_error # E0 THEN D
    ELSE [D EXCEPT !.dde_phys = ddt_phys_extend(@, j, D.cio[j].zp_copies)]

\* With one reference added whoever waits.
DdtAddRefs_one(D, j) == 1

\* The references zio_ddt_child_write_done() adds: one for each parent that
\* is no dedup child.
DdtAddRefs(D, j) ==
    Cardinality({n \in 1..Len(D.cio[j].io_parent_list) :
                    D.cio[j].io_parent_list[n][1] = "L"})

\* zio_ddt_child_write_done() of child write j.
zio_ddt_child_write_done_copies(D, j) ==
    LET D1 == IF D.dde_lead_zio = <<j>>
              THEN [D EXCEPT !.dde_lead_zio = <<>>] ELSE D
    IN  IF D.cio[j].io_error # E0
        THEN [D1 EXCEPT !.dde_phys = ddt_phys_unextend(@, D.dde_orig_phys),
                        !.dde_orig_phys = <<>>]
        ELSE [D1 EXCEPT !.refcnt = @ + DdtAddRefs(D, j),
                        !.dde_orig_phys =
                            IF D1.dde_lead_zio = <<>> THEN <<>> ELSE D.dde_phys]

\* The worst error of the children of pio.
RECURSIVE DdtChildError(_, _)
DdtChildError(D, S) ==
    IF S = {} THEN E0
    ELSE LET k == CHOOSE x \in S : TRUE
         IN  zio_worst_error(DdtChildError(D, S \ {k}), D.cio[k].io_error)

\* The DDT_WRITE stage of logical write i.
ZioDdtWriteCopies(i) ==
    /\ call.io[i].io_stage = "OPEN"
    /\ call' = zio_ddt_write_copies(call, i)
    /\ UNCHANGED pipeline_vars

\* DVA_ALLOCATE, answered e, and zio_ready() of child write j, which waits
\* for the lead it was chained on to be ready.
ZioDdtChildReady(j, e) ==
    /\ call.cio[j].io_stage = "OPEN"
    /\ \A k \in DdtChildrenOf(call, <<"C", j>>) :
          call.cio[k].io_stage \in {"READY", "DONE"}
    /\ call' = [zio_ddt_child_write_ready_copies(
                    [call EXCEPT !.cio[j].io_error = e], j)
                EXCEPT !.cio[j].io_stage = "READY"]
    /\ UNCHANGED pipeline_vars

\* The device write of child write j, answered e, and its zio_done(), which
\* waits for the lead it was chained on and takes its error.
ZioDdtChildDone(j, e) ==
    /\ call.cio[j].io_stage = "READY"
    /\ call.cio[j].io_error # E0 => e = E0
    /\ \A k \in DdtChildrenOf(call, <<"C", j>>) : call.cio[k].io_stage = "DONE"
    /\ LET own == IF call.cio[j].io_error # E0 THEN call.cio[j].io_error ELSE e
           err == zio_worst_error(
                      own, DdtChildError(call, DdtChildrenOf(call, <<"C", j>>)))
       IN  call' = [zio_ddt_child_write_done_copies(
                        [call EXCEPT !.cio[j].io_error = err], j)
                    EXCEPT !.cio[j].io_stage = "DONE"]
    /\ UNCHANGED pipeline_vars

\* zio_done() of logical write i, which waits for its children.
ZioDdtWriterDone(i) ==
    /\ call.io[i].io_stage = "DDT_WRITE"
    /\ \A k \in DdtChildrenOf(call, <<"L", i>>) : call.cio[k].io_stage = "DONE"
    /\ call' = [call EXCEPT
                    !.io[i].io_stage = "DONE",
                    !.io[i].io_error =
                        DdtChildError(call, DdtChildrenOf(call, <<"L", i>>))]
    /\ UNCHANGED pipeline_vars

\* The writes before their DDT_WRITE stage; the entry is new, or holds one
\* copy with one reference.
InitDdt ==
    /\ InitPipeline
    /\ spa_failmode = "WAIT"
    /\ spa_deadman_failmode = "WAIT"
    /\ ddt = NoDdt
    /\ call \in {[io |-> [i \in DedupIds |->
                            [io_stage |-> "OPEN", zp_copies |-> c[i],
                             io_error |-> E0, parent_dvas |-> <<>>]],
                  cio |-> [i \in DedupIds |-> NoDdtChild],
                  dde_phys |-> [n \in 1..prior |-> 0],
                  dde_orig_phys |-> <<>>,
                  dde_lead_zio |-> <<>>,
                  refcnt |-> prior,
                  prior |-> prior] :
                c \in [DedupIds -> 1..SPA_DVAS_PER_BP], prior \in 0..1}

NextDdt ==
    \/ \E i \in DedupIds : ZioDdtWriteCopies(i)
    \/ \E j \in DedupIds, e \in {E0, "ENOSPC"} : ZioDdtChildReady(j, e)
    \/ \E j \in DedupIds, e \in {E0, "EIO"} : ZioDdtChildDone(j, e)
    \/ \E i \in DedupIds : ZioDdtWriterDone(i)

SpecDdt == InitDdt /\ [][NextDdt]_vars

\* ------------------------------------------------------ allocation throttle
\* Throttled allocating writes of one allocator contending for its slots, on
\* their own.  call is the world the handlers transform: z holds writes
\* 1..MaxThrottle and the vdev child of write i at ThrottleChild(i), mc the
\* class allocators, tq the task queue; exec[i] counts the threads that are
\* in __zio_execute() with write i.  enq, deq and allocs count, per write and
\* class, the avl_add() and avl_remove() of the write and the runs of its
\* DVA_ALLOCATE stage.
MaxThrottle == 3
ThrottleIds == 1..MaxThrottle
ThrottleChild(i) == i + MaxThrottle
ThrottleZio(alive, stage, flags, mc, plist) ==
    [alive |-> alive, io_stage |-> stage, io_flags |-> flags,
     io_metaslab_class |-> mc, io_child_type |-> IF plist = <<>> THEN "LOGICAL"
                                                 ELSE "VDEV",
     io_error |-> E0, io_parent_list |-> plist,
     io_prop |-> [zp_copies |-> 1]]

\* The removals from the queues between D0 (after the avl_add of the step,
\* if any) and D1, added to the count.
CountDequeues(D, D0, D1) ==
    [i \in ThrottleIds |-> [mc \in Classes |->
        D.deq[i][mc] + IF i \in D0.mc[mc].mca_tree \ D1.mc[mc].mca_tree
                       THEN 1 ELSE 0]]

\* The DVA_THROTTLE stage of write i; the thread goes on with the zio the
\* handler returns, if any.
ZioDvaThrottle(i) ==
    /\ call.exec[i] > 0
    /\ call.z[i].io_stage = ZIO_STAGE_DVA_THROTTLE - 1
    /\ LET mc == IF call.z[i].io_metaslab_class = NoClass
                 THEN spa_preferred_class(call.z[i])
                 ELSE call.z[i].io_metaslab_class
           D0 == [call EXCEPT !.z[i].io_stage = ZIO_STAGE_DVA_THROTTLE]
           D1 == zio_dva_throttle(D0, i)
           Dq == [D0 EXCEPT !.mc[mc].mca_tree = @ \cup {i}]
       IN  call' = [D1 EXCEPT
                !.ret = <<>>,
                !.enq[i][mc] = @ + 1,
                !.deq = CountDequeues(call, Dq, D1),
                !.exec = [k \in ThrottleIds |->
                            call.exec[k] - (IF k = i THEN 1 ELSE 0)
                                + (IF D1.ret = <<k>> THEN 1 ELSE 0)]]
    /\ UNCHANGED pipeline_vars

\* The DVA_ALLOCATE stage of write i, metaslab_alloc() answering in.
ZioDvaAllocateThrottled(i, in) ==
    /\ call.exec[i] > 0
    /\ call.z[i].io_stage = ZIO_STAGE_DVA_THROTTLE
    /\ LET mc == call.z[i].io_metaslab_class
           D0 == [call EXCEPT !.z[i].io_stage = ZIO_STAGE_DVA_ALLOCATE,
                              !.in = in]
           D1 == zio_dva_allocate(D0, i)
       IN  call' = [D1 EXCEPT !.ret = <<>>, !.in = E0,
                              !.allocs[i][mc] = @ + 1,
                              !.deq = CountDequeues(call, D0, D1)]
    /\ UNCHANGED pipeline_vars

\* A failed write gives back one copy, whatever it reserved.
zio_ready_throttled_one(w, id) ==
    LET Z0 == w.z[id]
        wu == IF Z0.io_error # E0 /\ "ALLOC_THROTTLED" \in Z0.io_flags
              THEN zio_unreserve_dispatch(w, Z0.io_metaslab_class, 1,
                                          Z0.io_metaslab_class)
              ELSE w
    IN  [wu EXCEPT !.z[id].io_stage =
                        IF Z0.io_error # E0 THEN ZIO_STAGE_DONE - 1
                        ELSE ZIO_STAGE_READY]

\* zio_ready() of write i: a failed write gives its slot back.
zio_ready_throttled(w, id) ==
    LET Z0 == w.z[id]
        wu == IF Z0.io_error # E0 /\ "ALLOC_THROTTLED" \in Z0.io_flags
              THEN zio_unreserve_dispatch(w, Z0.io_metaslab_class,
                                          zp_copies(Z0),
                                          Z0.io_metaslab_class)
              ELSE w
    IN  [wu EXCEPT !.z[id].io_stage =
                        IF Z0.io_error # E0 THEN ZIO_STAGE_DONE - 1
                        ELSE ZIO_STAGE_READY]

ZioReadyThrottled(i) ==
    /\ call.exec[i] > 0
    /\ call.z[i].io_stage = ZIO_STAGE_DVA_ALLOCATE
    /\ LET D1 == zio_ready_throttled(call, i)
       IN  call' = [D1 EXCEPT !.deq = CountDequeues(call, call, D1)]
    /\ UNCHANGED pipeline_vars

\* VDEV_IO_START of write i: its vdev child takes its flags and class and
\* goes to the device; the write waits for it.
ZioVdevIoStartThrottled(i) ==
    /\ call.exec[i] > 0
    /\ call.z[i].io_stage = ZIO_STAGE_READY
    /\ call' = [call EXCEPT
            !.z[i].io_stage = ZIO_STAGE_VDEV_IO_START,
            !.z[ThrottleChild(i)] =
                ThrottleZio(TRUE, ZIO_STAGE_VDEV_IO_START,
                            call.z[i].io_flags \cap {"ALLOC_THROTTLED"},
                            call.z[i].io_metaslab_class, <<i>>),
            !.exec[i] = @ - 1]
    /\ UNCHANGED pipeline_vars

\* zio_done() of the vdev child of write i once the device has answered.
ZioVdevChildDoneThrottled(i) ==
    /\ call.z[ThrottleChild(i)].alive
    /\ call.z[ThrottleChild(i)].io_stage = ZIO_STAGE_VDEV_IO_START
    /\ LET cio == ThrottleChild(i)
           D1 == IF "ALLOC_THROTTLED" \in call.z[cio].io_flags
                 THEN zio_dva_throttle_done(call, cio) ELSE call
       IN  call' = [D1 EXCEPT !.z[cio].io_stage = ZIO_STAGE_DONE,
                              !.deq = CountDequeues(call, call, D1)]
    /\ UNCHANGED pipeline_vars

\* zio_done() of write i: it has failed, or its vdev child is done.
ZioDoneThrottled(i) ==
    /\ \/ call.exec[i] > 0 /\ call.z[i].io_stage = ZIO_STAGE_DONE - 1
       \/ /\ call.z[i].io_stage = ZIO_STAGE_VDEV_IO_START
          /\ call.z[ThrottleChild(i)].io_stage = ZIO_STAGE_DONE
    /\ call' = [call EXCEPT !.z[i].io_stage = ZIO_STAGE_DONE,
                            !.exec[i] = 0]
    /\ UNCHANGED pipeline_vars

\* A worker of the issue taskq takes the entry of write i: zio_execute().
TaskqRunThrottled(i) ==
    /\ <<"ISSUE", "zio_execute", i>> \in call.tq
    /\ call' = [call EXCEPT !.tq = @ \ {<<"ISSUE", "zio_execute", i>>},
                            !.exec[i] = @ + 1]
    /\ UNCHANGED pipeline_vars

\* Each write is with a thread that is about to run its DVA_THROTTLE stage.
InitThrottle ==
    /\ InitPipeline
    /\ spa_failmode = "WAIT"
    /\ spa_deadman_failmode = "WAIT"
    /\ ddt = NoDdt
    /\ call = [z |-> [k \in 1..(2 * MaxThrottle) |->
                        IF k \in ThrottleIds
                        THEN ThrottleZio(TRUE, ZIO_STAGE_DVA_THROTTLE - 1, {},
                                         NoClass, <<>>)
                        ELSE ThrottleZio(FALSE, ZIO_STAGE_OPEN, {}, NoClass,
                                         <<k - MaxThrottle>>)],
               mc |-> [mc \in Classes |->
                         [mca_tree |-> {}, mca_reserved |-> 0]],
               tq |-> {}, nio |-> <<>>, ret |-> <<>>, in |-> E0,
               exec |-> [i \in ThrottleIds |-> 1],
               enq |-> [i \in ThrottleIds |-> [mc \in Classes |-> 0]],
               deq |-> [i \in ThrottleIds |-> [mc \in Classes |-> 0]],
               allocs |-> [i \in ThrottleIds |-> [mc \in Classes |-> 0]]]

NextThrottle ==
    \/ \E i \in ThrottleIds : ZioDvaThrottle(i)
    \/ \E i \in ThrottleIds, in \in {E0, "ENOSPC"} :
          ZioDvaAllocateThrottled(i, in)
    \/ \E i \in ThrottleIds : ZioReadyThrottled(i)
    \/ \E i \in ThrottleIds : ZioVdevIoStartThrottled(i)
    \/ \E i \in ThrottleIds : ZioVdevChildDoneThrottled(i)
    \/ \E i \in ThrottleIds : ZioDoneThrottled(i)
    \/ \E i \in ThrottleIds : TaskqRunThrottled(i)

\* The scheduling the throttle relies on: a thread inside __zio_execute()
\* goes on running, a free worker takes a queued entry, and the device
\* answers every zio it was given.
FairThrottle ==
    \A i \in ThrottleIds :
        /\ WF_vars(ZioDvaThrottle(i))
        /\ WF_vars(\E in \in {E0, "ENOSPC"} : ZioDvaAllocateThrottled(i, in))
        /\ WF_vars(ZioReadyThrottled(i))
        /\ WF_vars(ZioVdevIoStartThrottled(i))
        /\ WF_vars(ZioVdevChildDoneThrottled(i))
        /\ WF_vars(ZioDoneThrottled(i))
        /\ WF_vars(TaskqRunThrottled(i))

SpecThrottle == InitThrottle /\ [][NextThrottle]_vars /\ FairThrottle

\* ------------------------------------------------- reservations by copies
\* The throttled writes again, each reserving zp_copies copies and, once it
\* has allocated, issuing one vdev child per copy: the top-level mirror op
\* makes one child for each DVA of the block.  A child may fail; a write whose
\* children failed is retried in place once, with children that carry
\* ZIO_FLAG_IO_RETRY.  The child of copy k of write i is ReserveChild(i, k).
MaxCopies == 2
ReserveChild(i, k) == MaxThrottle + (i - 1) * MaxCopies + k
ReserveChildren(D, i) ==
    {ReserveChild(i, k) : k \in 1..zp_copies(D.z[i])}

InitReserve ==
    /\ InitPipeline
    /\ spa_failmode = "WAIT"
    /\ spa_deadman_failmode = "WAIT"
    /\ ddt = NoDdt
    /\ \E copies \in [ThrottleIds -> 1..MaxCopies] :
        call = [z |-> [k \in 1..(MaxThrottle * (1 + MaxCopies)) |->
                        IF k \in ThrottleIds
                        THEN [ThrottleZio(TRUE, ZIO_STAGE_DVA_THROTTLE - 1,
                                          {}, NoClass, <<>>)
                              EXCEPT !.io_prop.zp_copies = copies[k]]
                        ELSE ThrottleZio(FALSE, ZIO_STAGE_OPEN, {}, NoClass,
                                <<1 + ((k - MaxThrottle - 1) \div MaxCopies)>>)],
               mc |-> [mc \in Classes |->
                         [mca_tree |-> {}, mca_reserved |-> 0]],
               tq |-> {}, nio |-> <<>>, ret |-> <<>>, in |-> E0,
               exec |-> [i \in ThrottleIds |-> 1],
               enq |-> [i \in ThrottleIds |-> [mc \in Classes |-> 0]],
               deq |-> [i \in ThrottleIds |-> [mc \in Classes |-> 0]],
               allocs |-> [i \in ThrottleIds |-> [mc \in Classes |-> 0]]]

\* VDEV_IO_START of write i: one vdev child per copy, with the flags
\* zio_vdev_child_io() gives it, goes to the device; the write waits.
ZioVdevIoStartReserve(i) ==
    /\ call.exec[i] > 0
    /\ call.z[i].io_stage = ZIO_STAGE_VDEV_IO_START - 1
    /\ call' = [call EXCEPT
            !.z = [k \in DOMAIN call.z |->
                     IF k = i
                     THEN [call.z[i] EXCEPT
                              !.io_stage = ZIO_STAGE_VDEV_IO_START]
                     ELSE IF k \in ReserveChildren(call, i)
                     THEN ThrottleZio(TRUE, ZIO_STAGE_VDEV_IO_START,
                                      VdevChildFlags(call.z[i]),
                                      call.z[i].io_metaslab_class, <<i>>)
                     ELSE call.z[k]],
            !.exec[i] = @ - 1]
    /\ UNCHANGED pipeline_vars

\* zio_done() of a vdev child once the device has answered with err; the
\* mirror op hands a child's error to the write.
ZioVdevChildDoneReserve(cio, err) ==
    /\ cio \in DOMAIN call.z \ ThrottleIds
    /\ call.z[cio].alive
    /\ call.z[cio].io_stage = ZIO_STAGE_VDEV_IO_START
    /\ LET pio == call.z[cio].io_parent_list[1]
           D1 == IF "ALLOC_THROTTLED" \in call.z[cio].io_flags
                 THEN zio_dva_throttle_done(call, cio) ELSE call
       IN  call' = [D1 EXCEPT !.z[cio].io_stage = ZIO_STAGE_DONE,
                              !.z[cio].io_error = err,
                              !.z[pio].io_error = IF err # E0 THEN err ELSE @,
                              !.deq = CountDequeues(call, call, D1)]
    /\ UNCHANGED pipeline_vars

\* VDEV_IO_ASSESS of write i once its children are done: a failed write
\* that was not retried yet goes back to the issue taskq, any other goes on
\* to zio_done().
ZioVdevIoAssessReserve(i) ==
    /\ call.z[i].io_stage = ZIO_STAGE_VDEV_IO_START
    /\ \A cio \in ReserveChildren(call, i) :
          call.z[cio].io_stage = ZIO_STAGE_DONE
    /\ IF call.z[i].io_error # E0 /\ "IO_RETRY" \notin call.z[i].io_flags
       THEN call' = [call EXCEPT
                !.z[i].io_error = E0,
                !.z[i].io_flags = @ \cup {"IO_RETRY"},
                !.z[i].io_stage = ZIO_STAGE_VDEV_IO_START - 1,
                !.tq = @ \cup {<<"ISSUE", "zio_execute", i>>}]
       ELSE call' = [call EXCEPT !.z[i].io_stage = ZIO_STAGE_DONE]
    /\ UNCHANGED pipeline_vars

\* zio_done() of a write that failed before it issued anything.
ZioDoneReserve(i) ==
    /\ call.exec[i] > 0
    /\ call.z[i].io_stage = ZIO_STAGE_DONE - 1
    /\ call' = [call EXCEPT !.z[i].io_stage = ZIO_STAGE_DONE,
                            !.exec[i] = 0]
    /\ UNCHANGED pipeline_vars

NextReserve ==
    \/ \E i \in ThrottleIds : ZioDvaThrottle(i)
    \/ \E i \in ThrottleIds, in \in {E0, "ENOSPC"} :
          ZioDvaAllocateThrottled(i, in)
    \/ \E i \in ThrottleIds : ZioReadyThrottled(i)
    \/ \E i \in ThrottleIds : ZioVdevIoStartReserve(i)
    \/ \E cio \in (MaxThrottle + 1)..(MaxThrottle * (1 + MaxCopies)),
          err \in {E0, "EIO"} : ZioVdevChildDoneReserve(cio, err)
    \/ \E i \in ThrottleIds : ZioVdevIoAssessReserve(i)
    \/ \E i \in ThrottleIds : ZioDoneReserve(i)
    \/ \E i \in ThrottleIds : TaskqRunThrottled(i)

SpecReserve == InitReserve /\ [][NextReserve]_vars

\* ------------------------------------------------------------- nop-write
\* zio_nop_write() on its own.  A block pointer is its checksum and
\* compression algorithms, its dedup and encryption bits, its checksum and
\* its DVAs, each the kind of top-level vdev it is on; a hole has no DVA.
\* call.in is the write as it enters the NOP_WRITE stage, call.out as it
\* leaves it.
ZIO_STAGE_NOP_WRITE == Stage("NOP_WRITE")
ZCHECKSUM_FLAG_NOPWRITE == {"sha256"}
BP_IS_HOLE(bp) == bp.blk_dva = <<>>
BP_GET_NDVAS(bp) == Len(bp.blk_dva)

\* The same without the look at the vdevs of the old block.
zio_nop_write_any_vdev(Zr) ==
    LET bp == Zr.io_bp
        bp_orig == Zr.io_bp_orig
    IN  IF \/ BP_IS_HOLE(bp_orig)
           \/ bp.checksum \notin ZCHECKSUM_FLAG_NOPWRITE
           \/ bp.encrypted \/ bp_orig.encrypted
           \/ bp.checksum # bp_orig.checksum
           \/ bp.compress # bp_orig.compress
           \/ bp.dedup # bp_orig.dedup
           \/ Zr.io_prop.zp_copies # BP_GET_NDVAS(bp_orig)
        THEN Zr
        ELSE IF bp.blk_cksum = bp_orig.blk_cksum
        THEN [Zr EXCEPT !.io_bp = bp_orig,
                        !.io_pipeline = ZIO_INTERLOCK_PIPELINE,
                        !.io_flags = @ \cup {"NOPWRITE"}]
        ELSE Zr

zio_nop_write(Zr) ==
    LET bp == Zr.io_bp
        bp_orig == Zr.io_bp_orig
    IN  IF \/ BP_IS_HOLE(bp_orig)
           \/ bp.checksum \notin ZCHECKSUM_FLAG_NOPWRITE
           \/ bp.encrypted \/ bp_orig.encrypted
           \/ bp.checksum # bp_orig.checksum
           \/ bp.compress # bp_orig.compress
           \/ bp.dedup # bp_orig.dedup
           \/ Zr.io_prop.zp_copies # BP_GET_NDVAS(bp_orig)
        THEN Zr
        ELSE IF bp.blk_cksum = bp_orig.blk_cksum
        THEN IF \E d \in 1..BP_GET_NDVAS(bp_orig) :
                    bp_orig.blk_dva[d] = "indirect"
             THEN Zr
             ELSE [Zr EXCEPT !.io_bp = bp_orig,
                             !.io_pipeline = ZIO_INTERLOCK_PIPELINE,
                             !.io_flags = @ \cup {"NOPWRITE"}]
        ELSE Zr

\* The NOP_WRITE stage of the write.
ZioNopWrite ==
    /\ call.out = <<>>
    /\ call' = [call EXCEPT !.out = <<zio_nop_write(call.in)>>]
    /\ UNCHANGED pipeline_vars

\* zio_done() of the write: a block pointer that was reused is the old one.
ZioNopWriteDone ==
    /\ call.out # <<>>
    /\ ~call.done
    /\ "NOPWRITE" \in call.out[1].io_flags =>
          call.out[1].io_bp = call.out[1].io_bp_orig
    /\ call' = [call EXCEPT !.done = TRUE]
    /\ UNCHANGED pipeline_vars

\* A write with zp_nopwrite after WRITE_COMPRESS and CHECKSUM_GENERATE: its
\* block pointer is a hole with its properties and checksum filled in, under a
\* checksum that allows nop-write, compressed and not deduplicated; the block
\* it overwrites was written under any settings, or never.
NopWriteVdevs == {"concrete", "indirect"}
NopWriteOldDvas ==
    {<<>>} \cup {<<a>> : a \in NopWriteVdevs}
           \cup {<<a, b>> : a, b \in NopWriteVdevs}
InitNopWrite ==
    /\ InitPipeline
    /\ spa_failmode = "WAIT"
    /\ spa_deadman_failmode = "WAIT"
    /\ ddt = NoDdt
    /\ call \in
        {[in |-> [io_bp |-> [checksum |-> ck, compress |-> cp,
                             dedup |-> FALSE, encrypted |-> enc,
                             blk_cksum |-> sum, blk_dva |-> <<>>],
                  io_bp_orig |-> [checksum |-> ock, compress |-> ocp,
                                  dedup |-> odd, encrypted |-> oenc,
                                  blk_cksum |-> osum, blk_dva |-> odva],
                  io_prop |-> [zp_copies |-> copies],
                  io_pipeline |-> ZIO_WRITE_PIPELINE \cup {ZIO_STAGE_NOP_WRITE},
                  io_flags |-> {}],
          out |-> <<>>, done |-> FALSE] :
            ck \in ZCHECKSUM_FLAG_NOPWRITE, cp \in {"lz4", "gzip"},
            enc \in BOOLEAN, sum \in {"A", "B"},
            ock \in Checksums, ocp \in {"off", "lz4", "gzip"},
            odd \in BOOLEAN, oenc \in BOOLEAN, osum \in {"A", "B"},
            odva \in NopWriteOldDvas, copies \in 1..2}

NextNopWrite == ZioNopWrite \/ ZioNopWriteDone

SpecNopWrite == InitNopWrite /\ [][NextNopWrite]_vars

\* ------------------------------------------- nop-write and dedup properties
\* The write properties of one write from zio_write() through
\* zio_write_override() and WRITE_COMPRESS to the NOP_WRITE and DDT_WRITE
\* stages.  The properties come from dmu_write_policy(), which asks for
\* nop-write only when it does not ask for dedup, and for verification only
\* with dedup.  An override block pointer is a hole or not, embedded or not,
\* and has a checksum algorithm; call.zio is the write, call.created the
\* properties it was created with.
dmu_write_policy ==
    {[zp_dedup |-> dd, zp_dedup_verify |-> dv, zp_nopwrite |-> nw,
      zp_brtwrite |-> FALSE, zp_encrypt |-> enc, zp_checksum |-> ck] :
        dd \in BOOLEAN, dv \in BOOLEAN, nw \in BOOLEAN, enc \in BOOLEAN,
        ck \in Checksums} \ 
    {zp \in [zp_dedup : BOOLEAN, zp_dedup_verify : BOOLEAN,
             zp_nopwrite : BOOLEAN, zp_brtwrite : {FALSE},
             zp_encrypt : BOOLEAN, zp_checksum : Checksums] :
        \/ zp.zp_dedup /\ zp.zp_nopwrite
        \/ zp.zp_dedup_verify /\ ~zp.zp_dedup}
OverrideBps ==
    [hole : BOOLEAN, embedded : BOOLEAN, checksum : Checksums]

\* zio_write() of a write that is no dedup child and no Direct I/O: without
\* data there is no dedup that needs the data.
zio_write_prop(zp, data) ==
    [io_stage |-> ZIO_STAGE_OPEN,
     io_pipeline |-> ZIO_WRITE_PIPELINE,
     io_orig_pipeline |-> ZIO_WRITE_PIPELINE,
     io_flags |-> {},
     io_bp_override |-> <<>>,
     io_prop |-> IF ~data /\ (zp.zp_dedup_verify \/ zp.zp_encrypt)
                 THEN [zp EXCEPT !.zp_dedup = FALSE,
                                 !.zp_dedup_verify = FALSE]
                 ELSE zp]

\* With the dedup property left as it is.
zio_write_override_keep(Zr, bp, nopwrite, brtwrite) ==
    [Zr EXCEPT !.io_prop.zp_nopwrite = nopwrite,
               !.io_prop.zp_brtwrite = brtwrite,
               !.io_bp_override = <<bp>>]

\* zio_write_override(); the copies are left out.
zio_write_override(Zr, bp, nopwrite, brtwrite) ==
    [Zr EXCEPT !.io_prop.zp_dedup = IF nopwrite THEN FALSE ELSE @,
               !.io_prop.zp_nopwrite = nopwrite,
               !.io_prop.zp_brtwrite = brtwrite,
               !.io_bp_override = <<bp>>]

\* What zio_write_compress() makes of the pipeline of a write that is not
\* rewritten in place: the data compresses to nothing (empty) or not.
zio_write_compress_regular(Zr, empty) ==
    IF empty THEN [Zr EXCEPT !.io_pipeline = ZIO_INTERLOCK_PIPELINE]
    ELSE [Zr EXCEPT !.io_pipeline =
            (IF Zr.io_prop.zp_dedup THEN ZIO_DDT_WRITE_PIPELINE
             ELSE ZIO_WRITE_PIPELINE)
            \cup (IF Zr.io_prop.zp_nopwrite THEN {ZIO_STAGE_NOP_WRITE}
                  ELSE {})]

\* zio_write_compress(): an override block pointer is taken as it is, or
\* goes to the dedup table, or is given up for a regular write.
zio_write_compress_prop(Zr, empty) ==
    IF Zr.io_bp_override = <<>> THEN zio_write_compress_regular(Zr, empty)
    ELSE LET bp == Zr.io_bp_override[1]
             zp == Zr.io_prop
             Z1 == [Zr EXCEPT !.io_pipeline = ZIO_INTERLOCK_PIPELINE]
         IN  IF zp.zp_brtwrite \/ bp.embedded THEN Z1
             ELSE IF ~bp.hole /\ zp.zp_nopwrite
             THEN [Z1 EXCEPT !.io_flags = @ \cup {"NOPWRITE"}]
             ELSE IF bp.hole \/ ~zp.zp_dedup THEN Z1
             ELSE IF bp.checksum = zp.zp_checksum /\ ~zp.zp_encrypt
             THEN [Z1 EXCEPT !.io_pipeline = @ \cup {ZIO_STAGE_DDT_WRITE}]
             ELSE zio_write_compress_regular(
                    [Zr EXCEPT !.io_bp_override = <<>>,
                               !.io_pipeline = Zr.io_orig_pipeline], empty)

\* Any write the policy allows, with data or without.
InitProp ==
    /\ InitPipeline
    /\ spa_failmode = "WAIT"
    /\ spa_deadman_failmode = "WAIT"
    /\ ddt = NoDdt
    /\ \E zp \in dmu_write_policy, data \in BOOLEAN :
        call = [zio |-> zio_write_prop(zp, data), created |-> zp]

\* zio_write_override() before the write is issued; a nop-write is recorded
\* for a block that was written, and is no clone.
ZioWriteOverride(bp, nopwrite, brtwrite) ==
    /\ call.zio.io_stage = ZIO_STAGE_OPEN
    /\ ~(brtwrite /\ nopwrite)
    /\ nopwrite => ~bp.hole
    /\ call' = [call EXCEPT
            !.zio = zio_write_override(call.zio, bp, nopwrite, brtwrite)]
    /\ UNCHANGED pipeline_vars

\* The WRITE_COMPRESS stage.
ZioWriteCompressProp(empty) ==
    /\ call.zio.io_stage = ZIO_STAGE_OPEN
    /\ call' = [call EXCEPT
            !.zio = zio_write_compress_prop(
                        [call.zio EXCEPT !.io_stage = ZIO_STAGE_WRITE_COMPRESS],
                        empty)]
    /\ UNCHANGED pipeline_vars

\* The loop goes on to the next stage of the pipeline, when that is
\* NOP_WRITE or DDT_WRITE.
ZioNextStageProp(stage) ==
    /\ call.zio.io_stage >= ZIO_STAGE_WRITE_COMPRESS
    /\ {s \in call.zio.io_pipeline : s > call.zio.io_stage} # {}
    /\ stage = Min({s \in call.zio.io_pipeline : s > call.zio.io_stage})
    /\ call' = [call EXCEPT !.zio.io_stage = stage]
    /\ UNCHANGED pipeline_vars

NextProp ==
    \/ \E bp \in OverrideBps, nopwrite \in BOOLEAN, brtwrite \in BOOLEAN :
          ZioWriteOverride(bp, nopwrite, brtwrite)
    \/ \E empty \in BOOLEAN : ZioWriteCompressProp(empty)
    \/ \E stage \in {ZIO_STAGE_NOP_WRITE, ZIO_STAGE_DDT_WRITE} :
          ZioNextStageProp(stage)

SpecProp == InitProp /\ [][NextProp]_vars

\* ------------------------------------------------------- the list walks
\* The two walks that drop the lock of the zio whose list they walk: the walk
\* of zio_ready() over the parents of a zio and the walk of zio_reexecute()
\* over the children of a zio, with zio_add_child() and zio_create() linking
\* new zios to the walked zio at any moment.  The walked zio is WalkZio; the
\* record in call holds the zios, the cursor of the walk, and as history the
\* list as it was when the walk started, the zios linked since and the zios
\* the walk has visited.
MaxWalk == 2
WalkZio == 1
WalkOthers == 2..(1 + 2 * MaxWalk)

\* zio_ready() from io_state[ZIO_WAIT_READY] = 1 to the first
\* zio_walk_parents(), under the zio's lock.
zio_ready_enter(Z, id) ==
    [Z EXCEPT ![id].io_stage = ZIO_STAGE_READY, ![id].io_state["READY"] = TRUE]

\* A logical child of pio that failed, is marked for reexecution, has
\* notified pio and sticks around.
StuckChild(Z, id, pio) ==
    LET Z1 == zio_create(Z, id, <<pio>>, "READ", "LOGICAL", {},
                         ZIO_STAGE_OPEN, ZIO_READ_PIPELINE, FALSE, FALSE, TRUE)
    IN  [Z1 EXCEPT
            ![id].io_stage = ZIO_STAGE_DONE,
            ![id].io_state = [w \in WaitTypes |-> TRUE],
            ![id].io_error = "EIO",
            ![id].io_post = {"REEXECUTE"},
            ![id].io_flags = {"DONT_PROPAGATE"},
            ![pio].io_children["LOGICAL"] = [w \in WaitTypes |-> @[w] - 1],
            ![pio].io_post = {"REEXECUTE"},
            ![pio].notified_by[id] = [w \in WaitTypes |-> 1]]

RECURSIVE WalkParents(_, _)
WalkParents(Z, n) ==
    IF n = 0 THEN Z
    ELSE zio_add_child_impl(zio_root(WalkParents(Z, n - 1), n + 1, {}),
                            n + 1, WalkZio)
RECURSIVE WalkChildren(_, _)
WalkChildren(Z, n) ==
    IF n = 0 THEN Z
    ELSE StuckChild(WalkChildren(Z, n - 1), n + 1, WalkZio)

\* A read in flight with n parents, about to be ready; or a root at the end
\* of zio_done() with n stuck children, handed to zio_reexecute().
InitWalk ==
    /\ InitPipeline
    /\ spa_failmode = "WAIT"
    /\ spa_deadman_failmode = "WAIT"
    /\ ddt = NoDdt
    /\ \E kind \in {"ready", "reexec"}, n \in 0..MaxWalk :
        LET Z0 == [id \in AllIds |-> NoZio]
            Zc == zio_create(Z0, WalkZio, <<>>, "READ", "LOGICAL", {},
                             ZIO_STAGE_OPEN, ZIO_READ_PIPELINE,
                             FALSE, FALSE, TRUE)
            Zp == WalkChildren(zio_root(Z0, WalkZio, {}), n)
        IN  call = [kind |-> kind, phase |-> "before", cur |-> <<>>,
                    start |-> <<>>, added |-> {}, visited |-> {},
                    z |-> IF kind = "ready" THEN WalkParents(Zc, n)
                          ELSE [Zp EXCEPT
                                  ![WalkZio].io_stage = ZIO_STAGE_DONE,
                                  ![WalkZio].io_state =
                                      [w \in WaitTypes |-> TRUE]]]

WalkUnchanged == UNCHANGED pipeline_vars

\* zio_add_child(pio, WalkZio) by a caller holding both zios: a new root
\* becomes a parent of the read, before, during or after the walk.
WalkAddParent(pio) ==
    /\ call.kind = "ready"
    /\ ~call.z[pio].alive
    /\ LET Z1 == zio_root(call.z, pio, {})
       IN  call' = [call EXCEPT
                !.z = zio_add_child_impl(Z1, pio, WalkZio),
                !.added = IF call.phase = "walk" THEN @ \cup {pio} ELSE @]
    /\ WalkUnchanged

\* zio_ready(): the zio is ready, the walk starts at the head of the list.
WalkReadyStart ==
    /\ call.kind = "ready" /\ call.phase = "before"
    /\ LET Z1 == zio_ready_enter(call.z, WalkZio)
       IN  call' = [call EXCEPT
                !.z = Z1,
                !.phase = IF Z1[WalkZio].io_parent_list = <<>>
                          THEN "after" ELSE "walk",
                !.cur = list_head(Z1[WalkZio].io_parent_list),
                !.start = Z1[WalkZio].io_parent_list]
    /\ WalkUnchanged

\* One turn of the loop: pio_next is read, then pio is notified.
WalkReadyNotify ==
    /\ call.kind = "ready" /\ call.phase = "walk"
    /\ LET pio == call.cur[1]
           pio_next == list_next(call.z[WalkZio].io_parent_list, pio)
           w == zio_notify_parent(
                    [z |-> call.z, tq |-> {}, next |-> <<>>],
                    pio, WalkZio, "READY", FALSE)
       IN  call' = [call EXCEPT
                !.z = w.z,
                !.cur = pio_next,
                !.visited = @ \cup {pio},
                !.phase = IF pio_next = <<>> THEN "after" ELSE "walk"]
    /\ WalkUnchanged

\* zio_create() of a new child under WalkZio once zio_reexecute() has reset
\* it.
WalkCreateChild(cio) ==
    /\ call.kind = "reexec" /\ call.phase # "before"
    /\ ~call.z[cio].alive
    /\ call' = [call EXCEPT
            !.z = zio_create(call.z, cio, <<WalkZio>>, "READ", "LOGICAL", {},
                             ZIO_STAGE_OPEN, ZIO_READ_PIPELINE,
                             FALSE, FALSE, TRUE),
            !.added = IF call.phase = "walk" THEN @ \cup {cio} ELSE @]
    /\ WalkUnchanged

\* zio_reexecute(WalkZio) up to the first zio_walk_children().
WalkReexecuteStart ==
    /\ call.kind = "reexec" /\ call.phase = "before"
    /\ LET Z1 == zio_reexecute(call.z, WalkZio)
       IN  call' = [call EXCEPT
                !.z = Z1,
                !.phase = IF Z1[WalkZio].io_child_list = <<>>
                          THEN "after" ELSE "walk",
                !.cur = list_head(Z1[WalkZio].io_child_list),
                !.start = Z1[WalkZio].io_child_list]
    /\ WalkUnchanged

\* One turn of the loop: cio_next is read, then cio is reexecuted.
WalkReexecuteChild ==
    /\ call.kind = "reexec" /\ call.phase = "walk"
    /\ LET cio == call.cur[1]
           cio_next == list_next(call.z[WalkZio].io_child_list, cio)
       IN  call' = [call EXCEPT
                !.z = zio_reexecute(call.z, cio),
                !.cur = cio_next,
                !.visited = @ \cup {cio},
                !.phase = IF cio_next = <<>> THEN "after" ELSE "walk"]
    /\ WalkUnchanged

NextWalk ==
    \/ \E pio \in WalkOthers : WalkAddParent(pio)
    \/ WalkReadyStart
    \/ WalkReadyNotify
    \/ \E cio \in WalkOthers : WalkCreateChild(cio)
    \/ WalkReexecuteStart
    \/ WalkReexecuteChild

SpecWalk == InitWalk /\ [][NextWalk]_vars

\* ------------------------------------------------------ transform stack
\* zio_push_transform() and zio_pop_transforms() on their own.  call.zio has
\* the buffer, the size and the transform stack of one zio, top first, and
\* as history the callbacks called and the buffers freed by the last pop;
\* call.pushed is the buffer, size and callback of each push since the stack
\* was last empty, and call.first the buffer and size before the first of
\* them.
MaxPush == 3
TransformBuffers == {"abd0", "abd1", "abd2"}
TransformSizes == 1..2
TransformFuncs == {"NULL", "zio_subblock", "zio_decompress"}

zio_push_transform(Zr, data, size, bufsize, transform) ==
    [Zr EXCEPT
        !.io_transform_stack =
            <<[zt_orig_abd |-> Zr.io_abd, zt_orig_size |-> Zr.io_size,
               zt_bufsize |-> bufsize, zt_transform |-> transform]>> \o @,
        !.io_abd = data,
        !.io_size = size]

\* One turn of the loop only.
zio_pop_transforms_one(Zr) ==
    IF Zr.io_transform_stack = <<>> THEN Zr
    ELSE LET zt == Head(Zr.io_transform_stack)
         IN  [Zr EXCEPT
                !.called = IF zt.zt_transform # "NULL"
                           THEN Append(@, <<zt.zt_transform, zt.zt_orig_abd,
                                            zt.zt_orig_size>>)
                           ELSE @,
                !.freed = IF zt.zt_bufsize # 0 THEN Append(@, Zr.io_abd)
                          ELSE @,
                !.io_abd = zt.zt_orig_abd,
                !.io_size = zt.zt_orig_size,
                !.io_transform_stack = Tail(@)]

RECURSIVE zio_pop_transforms(_)
zio_pop_transforms(Zr) ==
    IF Zr.io_transform_stack = <<>> THEN Zr
    ELSE LET zt == Head(Zr.io_transform_stack)
         IN  zio_pop_transforms(
                [Zr EXCEPT
                    !.called = IF zt.zt_transform # "NULL"
                               THEN Append(@, <<zt.zt_transform,
                                                zt.zt_orig_abd,
                                                zt.zt_orig_size>>)
                               ELSE @,
                    !.freed = IF zt.zt_bufsize # 0 THEN Append(@, Zr.io_abd)
                              ELSE @,
                    !.io_abd = zt.zt_orig_abd,
                    !.io_size = zt.zt_orig_size,
                    !.io_transform_stack = Tail(@)])

\* A zio as zio_create() leaves it: some buffer, an empty stack.
InitTransform ==
    /\ InitPipeline
    /\ spa_failmode = "WAIT"
    /\ spa_deadman_failmode = "WAIT"
    /\ ddt = NoDdt
    /\ \E abd \in TransformBuffers, size \in TransformSizes :
        call = [zio |-> [io_abd |-> abd, io_size |-> size,
                         io_transform_stack |-> <<>>,
                         called |-> <<>>, freed |-> <<>>],
                first |-> [abd |-> abd, size |-> size],
                pushed |-> <<>>, popped |-> FALSE]

PushTransform(data, size, bufsize, transform) ==
    /\ Len(call.zio.io_transform_stack) < MaxPush
    /\ call' = [call EXCEPT
            !.zio = zio_push_transform(
                        [call.zio EXCEPT !.called = <<>>, !.freed = <<>>],
                        data, size, bufsize, transform),
            !.first = IF call.zio.io_transform_stack = <<>>
                      THEN [abd |-> call.zio.io_abd,
                            size |-> call.zio.io_size]
                      ELSE @,
            !.pushed = Append(IF call.zio.io_transform_stack = <<>>
                              THEN <<>> ELSE @,
                              [abd |-> call.zio.io_abd,
                               size |-> call.zio.io_size,
                               transform |-> transform]),
            !.popped = FALSE]
    /\ UNCHANGED pipeline_vars

PopTransforms ==
    /\ ~call.popped
    /\ call' = [call EXCEPT
            !.zio = zio_pop_transforms(
                        [call.zio EXCEPT !.called = <<>>, !.freed = <<>>]),
            !.popped = TRUE]
    /\ UNCHANGED pipeline_vars

NextTransform ==
    \/ \E data \in TransformBuffers, size \in TransformSizes,
          keep \in BOOLEAN, transform \in TransformFuncs :
          PushTransform(data, size, IF keep THEN 0 ELSE size, transform)
    \/ PopTransforms

SpecTransform == InitTransform /\ [][NextTransform]_vars

\* ================================================================= claims
Ranked(e) == ErrorRank(e) < Len(zio_error_rank)
BothApplied == call # <<>> /\ call.ret # <<>> /\ call.swapped # <<>>

\* C10 as stated: zio_worst_error(a, b) = zio_worst_error(b, a) for all error
\* codes, and zio_worst_error(a, a) = a.
C10_Commutative ==
    BothApplied =>
        /\ call.ret = call.swapped
        /\ call.e1 = call.e2 => call.ret = <<call.e1>>

\* C10 amended: the function is idempotent, and commutative whenever at least
\* one argument is in the rank table; of two codes outside the table it
\* returns the second argument.
C10_CommutativeOnRanked ==
    BothApplied =>
        /\ call.e1 = call.e2 => call.ret = <<call.e1>>
        /\ Ranked(call.e1) \/ Ranked(call.e2) => call.ret = call.swapped
        /\ ~Ranked(call.e1) /\ ~Ranked(call.e2) =>
              call.ret = <<call.e2>> /\ call.swapped = <<call.e1>>

C10_Witness ==
    /\ BothApplied
    /\ Ranked(call.e1) /\ ~Ranked(call.e2)
    /\ call.ret = <<call.e2>> /\ call.swapped = <<call.e2>>

\* C4: every counter of a parent equals the number of linked children of that
\* type that have not reached the milestone.
Outstanding(p, c, w) ==
    Cardinality({i \in 1..Len(zio[p].io_child_list) :
        LET k == zio[p].io_child_list[i]
        IN  zio[k].alive /\ zio[k].io_child_type = c /\ ~zio[k].io_state[w]})

C4_CountersMatch ==
    \A p \in AllIds : zio[p].alive =>
        \A c \in ChildTypes, w \in WaitTypes :
            /\ zio[p].io_children[c][w] = Outstanding(p, c, w)
            /\ zio[p].io_children[c][w] >= 0

C4_Witness ==
    \E p \in AllIds : zio[p].alive /\
        \E i \in 1..Len(zio[p].io_child_list) :
            LET c == zio[p].io_child_list[i]
            IN  /\ "REEXECUTED" \in zio[c].io_flags
                /\ ~zio[c].io_state["DONE"]
                /\ zio[p].io_children[zio[c].io_child_type]["DONE"] = 1

Linked(p, c) == zio[p].alive /\ zio[c].alive /\ InList(zio[p].io_child_list, c)
HasReadyStage(c) == ZIO_STAGE_READY \in zio[c].io_orig_pipeline

\* C1 as stated: for every linked parent P and child C, P has not reached
\* READY unless C has, and P has not reached DONE unless C has.
C1_ChildrenFirst ==
    \A p \in AllIds, c \in AllIds : Linked(p, c) =>
        /\ zio[p].io_state["READY"] => zio[c].io_state["READY"]
        /\ zio[p].io_state["DONE"] => zio[c].io_state["DONE"]

ChildrenDoneFirst ==
    \A p \in AllIds, c \in AllIds :
        Linked(p, c) /\ zio[p].io_state["DONE"] => zio[c].io_state["DONE"]

\* P passes its READY stage in this step.
ReachesReady(p) ==
    zio[p].alive /\ ~zio[p].io_state["READY"] /\ zio'[p].alive
    /\ zio'[p].io_state["READY"] /\ zio'[p].runs = zio[p].runs

ChildrenReadyFirst ==
    \A p \in AllIds : ReachesReady(p) =>
        \A c \in AllIds : Linked(p, c) => zio[c].io_state["READY"]

\* C1 amended: a child reaches DONE before its parent does, and has reached
\* READY before its parent passes its own READY stage; a parent without a
\* READY stage counts as ready from its creation, whatever its children.
C1_ChildrenFirstByStage == []ChildrenDoneFirst /\ [][ChildrenReadyFirst]_vars

C1_Witness ==
    \E p \in AllIds, c \in AllIds :
        /\ Linked(p, c)
        /\ HasReadyStage(p) /\ HasReadyStage(c)
        /\ zio[p].io_state["READY"] /\ zio[c].io_state["READY"]
        /\ ~zio[p].io_state["DONE"]

\* The link p -> c is made in this step.
NewLink(p, c) ==
    /\ zio'[p].alive /\ zio'[c].alive /\ InList(zio'[p].io_child_list, c)
    /\ ~(zio[p].alive /\ InList(zio[p].io_child_list, c))
CounterBefore(p, k, w) == IF zio[p].alive THEN zio[p].io_children[k][w] ELSE 0

\* C reaches milestone w in this step (and may be destroyed in it).
ReachesMilestone(c, w) ==
    /\ zio[c].alive /\ ~zio[c].io_state[w]
    /\ ~zio'[c].alive \/ (zio'[c].io_state[w] /\ zio'[c].runs = zio[c].runs)

NotifiedLess(w) ==
    \A p \in AllIds, c \in AllIds :
        Linked(p, c) /\ ReachesMilestone(c, w) /\ zio'[p].alive =>
            zio'[p].io_children[zio[c].io_child_type][w] =
                zio[p].io_children[zio[c].io_child_type][w] - 1

\* C5 as stated: add-child(P, C) makes both of P's counters for C's kind
\* exactly 1 greater, and each is 1 less once C reaches the milestone.
C5_BothCountersUp ==
    [][/\ \A p \in AllIds, c \in AllIds : NewLink(p, c) =>
            \A w \in WaitTypes :
                zio'[p].io_children[zio'[c].io_child_type][w] =
                    CounterBefore(p, zio'[c].io_child_type, w) + 1
       /\ \A w \in WaitTypes : NotifiedLess(w)]_vars

\* C5 amended: add-child(P, C) raises P's counter for (C's kind, w) by 1 when
\* C has not reached milestone w at the call and leaves it alone when C has;
\* a counter that was raised is 1 less once C reaches the milestone.
C5_CountersUpUnlessReached ==
    [][/\ \A p \in AllIds, c \in AllIds : NewLink(p, c) =>
            \A w \in WaitTypes :
                zio'[p].io_children[zio'[c].io_child_type][w] =
                    CounterBefore(p, zio'[c].io_child_type, w)
                    + (IF zio'[c].io_state[w] THEN 0 ELSE 1)
       /\ \A w \in WaitTypes : NotifiedLess(w)]_vars

C5_Witness ==
    \E p \in AllIds, c \in AllIds :
        /\ Linked(p, c)
        /\ zio[c].io_child_type = "VDEV"
        /\ zio[c].io_state["READY"] /\ ~zio[c].io_state["DONE"]
        /\ zio[p].io_children["VDEV"]["READY"] = 0
        /\ zio[p].io_children["VDEV"]["DONE"] = 1

\* C6 as stated: over N's whole lifetime P's DONE counter is decremented on
\* behalf of N exactly once.
C6_DecrementedOnce ==
    \A p \in AllIds : zio[p].alive =>
        \A c \in AllIds : zio[p].notified_by[c]["DONE"] <= 1

\* C6 amended: P's DONE counter is decremented on behalf of N exactly once per
\* run of N, when that run reaches the end of the DONE stage (whether N
\* completes or is marked for reexecution or suspension); a node that is
\* reexecuted is counted again and decrements again.
C6_DecrementedOncePerRun ==
    \A p \in AllIds, c \in AllIds : Linked(p, c) =>
        zio[p].notified_by[c]["DONE"] =
            zio[c].runs - zio[p].linked_run[c]
            - (IF zio[c].io_state["DONE"] THEN 0 ELSE 1)

C6_Witness ==
    \E p \in AllIds, c \in AllIds :
        /\ Linked(p, c)
        /\ zio[c].runs = 2 /\ ~zio[c].io_state["DONE"]
        /\ zio[p].notified_by[c]["DONE"] = 1

\* What zio_wait() returned, against the errors the zio had.
Returned == {id \in AllIds : wait_result[id] # <<>>}
Max(S) == CHOOSE x \in S : \A y \in S : x >= y
WorstRank(r) ==
    Max({ErrorRank(r.own_error)} \cup
        {ErrorRank(r.io_child_error[c]) : c \in ChildTypes})
RECURSIVE FirstError(_)
FirstError(errs) ==
    IF errs = <<>> THEN E0
    ELSE IF Head(errs) # E0 THEN Head(errs) ELSE FirstError(Tail(errs))

\* C9 as stated: wait(node) returns the worst-ranked error among the node's
\* own error and the errors propagated from its children of every kind.
C9_WaitReturnsWorst ==
    \A id \in Returned :
        ErrorRank(wait_result[id].error) = WorstRank(wait_result[id])

\* C9 amended: wait(node) returns the node's own error when it has one, and
\* otherwise the first non-zero of the per-kind child errors taken in the
\* order vdev, gang, dedup, logical (each the worst-ranked error propagated
\* by the children of that kind).
C9_WaitReturnsFirst ==
    \A id \in Returned :
        LET r == wait_result[id]
        IN  r.error = FirstError(<<r.own_error>> \o
                [i \in 1..Len(ChildOrder) |-> r.io_child_error[ChildOrder[i]]])

C9_Witness ==
    \E id \in Returned :
        /\ wait_result[id].own_error = "ENXIO"
        /\ wait_result[id].io_child_error["LOGICAL"] = "EIO"
        /\ wait_result[id].error = "ENXIO"

\* The holders of a zio: the threads inside __zio_execute() or zio_reexecute()
\* for it, its pending taskq entries, and its stall on a child counter.
ExecutingOps == {"exec", "zio_reexecute", "reexec_parents", "reexec_count",
                 "reexec", "zio_ddt_write"}
Executors(id) ==
    {t \in Threads : \E i \in 1..Len(stack[t]) :
        stack[t][i].z = id /\ stack[t][i].op \in ExecutingOps}
Holders(id) ==
    Cardinality(Executors(id)) + Cardinality({e \in taskq : e[3] = id})
    + (IF zio[id].alive /\ zio[id].io_stall # <<>> THEN 1 ELSE 0)

\* C2: at any moment a zio is held by at most one of: a thread running its
\* stages, a pending taskq entry, a stall on a child counter.
C2_SingleHolder == \A id \in AllIds : Holders(id) <= 1

\* The thread's top frame is an attempt to take the lock of id.
Wants(t, id) ==
    /\ stack[t] # <<>>
    /\ \/ Top(t).op \in {"deadman_lock", "zio_reexecute"} /\ Top(t).z = id
       \/ Top(t).op = "reexec_parents" /\ Top(t).cur # <<>>
          /\ Head(Top(t).cur) = id
Deadlocked ==
    \E t1 \in Threads, t2 \in Threads, a \in AllIds, b \in AllIds :
        /\ t1 # t2
        /\ a \in HeldBy(zio, t1) /\ Wants(t1, b)
        /\ b \in HeldBy(zio, t2) /\ Wants(t2, a)

\* C7: a thread that holds the locks of a parent and of its child took the
\* parent's lock first, and no two threads wait for each other's zio lock.
C7_ParentLockFirst ==
    /\ \A p \in AllIds, c \in AllIds, t \in Threads :
          Linked(p, c) /\ p \in HeldBy(zio, t) /\ c \in HeldBy(zio, t) =>
              zio[p].io_lock[2] < zio[c].io_lock[2]
    /\ ~Deadlocked


\* A zio is in the pipeline from its submission until it is at the DONE stage
\* (or gone, having completed).
InPipeline(id) ==
    /\ zio[id].alive
    /\ zio[id].io_queued_timestamp
    /\ zio[id].io_stage < ZIO_STAGE_DONE
AtDone(id) == ~zio[id].alive \/ zio[id].io_stage >= ZIO_STAGE_DONE

\* The loop of __zio_execute() finds a stage of the pipeline above io_stage,
\* DONE at the latest.
HasNextStage(id) ==
    InPipeline(id) =>
        \E s \in zio[id].io_pipeline :
            s > zio[id].io_stage /\ s <= ZIO_STAGE_DONE

\* C3: every zio handed to the dispatcher reaches the DONE stage in the end,
\* the workers, the waiters and the device being fair: the loop always finds
\* a stage to run, DONE at the latest, and no stage is re-run for ever by a
\* child wait, an in-place retry, an allocation-class fallback or a dedup
\* checksum upgrade.
C3_ReachesDone ==
    /\ [](\A id \in AllIds : HasNextStage(id))
    /\ \A id \in AllIds : InPipeline(id) ~> AtDone(id)

\* A write at DONE that the allocation-class fallback has sent back to its
\* throttle stage, and whose vdev I/O was retried in place.
C3_Witness ==
    \E id \in CallerIds :
        /\ zio[id].alive /\ zio[id].io_type = "WRITE"
        /\ zio[id].io_stage = ZIO_STAGE_DONE
        /\ zio[id].io_metaslab_class = "normal"
        /\ "IO_RETRY" \in zio[id].io_flags
        /\ zio[id].io_error = E0

\* C8: no thread is in the blocking wait of zio_wait() inside a stage
\* handler: no stack has a wait frame above the frame of a handler (here
\* for a raw write, where the wait is the zio_wait() of zio_ddt_collision).
C8_NoWaitInHandler ==
    \A t \in Threads : \A i \in 1..Len(stack[t]) :
        stack[t][i].op = "wait" /\ "RAW" \in zio[stack[t][i].z].io_flags =>
            \A j \in (i + 1)..Len(stack[t]) :
                stack[t][j].op # "zio_ddt_write"

\* zio_done() goes through for id in this step: id is destroyed, or has
\* reached DONE.
DoneStep(id) == ReachesMilestone(id, "DONE")
\* The error zio_done() finds: the zio's own, or that of its vdev, gang and
\* dedup children.
ErrorAtDone(id) ==
    FirstError(<<zio[id].io_error, zio[id].io_child_error["VDEV"],
                 zio[id].io_child_error["GANG"], zio[id].io_child_error["DDT"]>>)
MustSucceedWrite(id) ==
    /\ zio[id].io_type = "WRITE" /\ zio[id].io_child_type = "LOGICAL"
    /\ IO_IS_ALLOCATING(zio[id])
    /\ "CANFAIL" \notin zio[id].io_flags
\* The parents that are no godfathers (a zio has at most one).
TrueParents(id) ==
    {p \in AllIds : InList(zio[id].io_parent_list, p)
                     /\ "GODFATHER" \notin zio[p].io_flags}
Marked(Z, id) == Z[id].alive /\ "SUSPEND" \in Z[id].io_post
UnderSuspendRoot(id) ==
    /\ spa_suspended' /\ spa_suspend_zio_root' # <<>>
    /\ zio'[id].io_parent_list = spa_suspend_zio_root'

FinalError(id) ==
    FirstError(<<ErrorAtDone(id), zio[id].io_child_error["LOGICAL"]>>)
Marks == {"REEXECUTE", "SUSPEND"}
CanFail(id) == "CANFAIL" \in zio[id].io_flags
\* zio_done() completes id in this step: it is freed, or left to its waiter.
Completed(id) == ~zio'[id].alive \/ zio'[id].io_post \cap Marks = {}
\* zio_done() puts a mark on id that no child has handed to it.
MarkedHere(id) ==
    /\ DoneStep(id) /\ zio[id].io_post \cap Marks = {}
    /\ zio'[id].alive /\ zio'[id].io_post \cap Marks # {}
\* A logical read or free that finds its device gone, the pool not being in
\* failmode "continue".
DeviceGone(id) ==
    /\ zio[id].io_logical /\ zio[id].io_type \in {"READ", "FREE"}
    /\ ErrorAtDone(id) = "ENXIO" /\ spa_failmode # "CONTINUE"

Godfather(id) == zio[id].alive /\ "GODFATHER" \in zio[id].io_flags

\* C13: a godfather that ends its DONE stage carries no suspend mark, does
\* not suspend the pool and is never linked under the suspend root; and when a
\* zio ends its DONE stage marked for suspension, every godfather among its
\* parents has lost it from its child list, with one DONE notification less
\* to wait for.
C13_GodfatherSevers ==
    [][/\ \A g \in AllIds : Godfather(g) /\ DoneStep(g) =>
              /\ zio'[g].alive => "SUSPEND" \notin zio'[g].io_post
              /\ zio'[g].alive => zio'[g].io_parent_list = <<>>
              /\ spa_suspended' = spa_suspended
       /\ \A c \in AllIds, g \in AllIds :
              (DoneStep(c) /\ Marked(zio', c) /\ Godfather(g) /\ Linked(g, c)) =>
                 /\ zio'[g].alive
                 /\ ~InList(zio'[g].io_child_list, c)
                 /\ ~InList(zio'[c].io_parent_list, g)
                 /\ zio'[g].io_children[zio[c].io_child_type]["DONE"] =
                        zio[g].io_children[zio[c].io_child_type]["DONE"] - 1]_vars

\* After a resume a reexecuted zio has failed again: the old suspend root has
\* let it go and is done without a mark, the zio is under a new suspend root.
C13_Witness ==
    /\ spa_suspended
    /\ \E c \in CallerIds, r \in SuspendIds :
          /\ Marked(zio, c) /\ zio[c].runs >= 2
          /\ zio[c].io_parent_list = spa_suspend_zio_root
          /\ <<r>> # spa_suspend_zio_root
          /\ Godfather(r) /\ zio[r].io_state["DONE"]
          /\ zio[r].io_child_list = <<>> /\ "SUSPEND" \notin zio[r].io_post

\* zio_nowait(id) is called in this step.
NowaitStep(id) ==
    /\ zio[id].alive /\ ~zio[id].io_queued_timestamp
    /\ zio'[id].alive /\ zio'[id].io_queued_timestamp
    /\ zio'[id].io_waiter = NoThread
AsyncChild(Z, id) ==
    /\ InList(Z[spa_async_zio_root].io_child_list, id)
    /\ InList(Z[id].io_parent_list, spa_async_zio_root)

ResumeReturns(t) ==
    /\ Running(t, "wait") /\ Top(t).z \in SuspendIds
    /\ stack'[t] = Tail(stack[t])
\* The zios that have been reexecuted and are not freed.
Reexecuted == {c \in CallerIds : zio[c].alive /\ zio[c].runs >= 2}
Finished(c) == zio[c].io_state["DONE"] /\ zio[c].io_post \cap Marks = {}
\* c is kept once more: marked, under the suspend root or a marked parent.
RetainedAgain(c) ==
    /\ spa_suspended /\ zio[c].io_state["DONE"] /\ Marked(zio, c)
    /\ IF TrueParents(c) = {} THEN zio[c].io_parent_list = spa_suspend_zio_root
       ELSE \A p \in TrueParents(c) : Marked(zio, p)

\* What C15 and its amendment share: a root that ends its DONE stage with a
\* suspend mark stays allocated, is not handed to its waiter and is a child of
\* the suspend root, the pool being suspended; the children of the suspend
\* root are such zios as long as it is the pool's suspend root; zio_resume()
\* clears both, and has reexecuted every child of the old root when it starts
\* to wait for it.
RetainedAndReexecuted ==
    /\ [][\A id \in AllIds :
            (DoneStep(id) /\ Marked(zio', id) /\ zio[id].io_parent_list = <<>>) =>
                /\ UnderSuspendRoot(id)
                /\ zio'[id].io_executor # NoThread]_vars
    /\ [](\A c \in AllIds :
            (spa_suspend_zio_root # <<>>
             /\ InList(zio[spa_suspend_zio_root[1]].io_child_list, c)) =>
                /\ spa_suspended /\ Marked(zio, c) /\ zio[c].io_state["DONE"]
                /\ zio[c].io_executor # NoThread)
    /\ [][spa_suspend_zio_root # <<>> /\ spa_suspend_zio_root' = <<>> =>
            /\ ~spa_suspended'
            /\ \E t \in Threads :
                  /\ Running(t, "zio_reexecute")'
                  /\ Top(t)'.z = spa_suspend_zio_root[1]]_vars
    /\ [](\A t \in Threads : Running(t, "zio_wait") =>
            \A c \in AllIds : InList(zio[Top(t).z].io_child_list, c) =>
                zio[c].runs > zio[Top(t).z].linked_run[c])

\* C15 as stated: the above, and zio_resume() returns only when every zio it
\* has reexecuted has completed.
C15_ResumeCompletesAll ==
    /\ RetainedAndReexecuted
    /\ [][\A t \in Threads : ResumeReturns(t) =>
            \A c \in Reexecuted : Finished(c)]_vars

\* C15 amended: the above, and zio_resume() returns only when every zio it
\* has reexecuted has completed or has failed again and is kept under a new
\* suspend root, the pool being suspended again.
C15_ResumeCompletesOrSuspends ==
    /\ RetainedAndReexecuted
    /\ [][\A t \in Threads : ResumeReturns(t) =>
            \A c \in Reexecuted : Finished(c) \/ RetainedAgain(c)]_vars

\* zio_resume() has returned and freed the old suspend root, and a zio it
\* reexecuted is under the new one.
C15_Witness ==
    /\ spa_suspended /\ Idle("admin")
    /\ \A r \in SuspendIds : <<r>> # spa_suspend_zio_root => ~zio[r].alive
    /\ \E c \in CallerIds :
          /\ Marked(zio, c) /\ zio[c].runs >= 2
          /\ zio[c].io_parent_list = spa_suspend_zio_root

\* zio_wait() or zio_nowait() of id starts in this step.
SubmitStep(id) ==
    /\ zio[id].alive /\ ~zio[id].io_queued_timestamp
    /\ zio'[id].alive /\ zio'[id].io_queued_timestamp
\* A zio with no parent to wait for it that has not been reexecuted.
NewRoot(id) == zio[id].alive /\ TrueParents(id) = {} /\ zio[id].runs = 1
\* The thread that runs a submitted zio takes it out of its first stage.
LeavesOpen(id) ==
    /\ zio[id].io_stage = ZIO_STAGE_OPEN /\ zio[id].io_queued_timestamp
    /\ zio'[id].alive => zio'[id].io_stage > ZIO_STAGE_OPEN
    /\ \E t \in Threads : Running(t, "exec") /\ Top(t).z = id /\ stack'[t] # stack[t]

\* C16 as stated: while the pool is suspended no zio_wait() or zio_nowait()
\* of a root-level zio starts, and no submitted root-level zio leaves its
\* first stage.
C16_SubmissionsBlocked ==
    [][\A id \in CallerIds : spa_suspended /\ NewRoot(id) =>
            ~SubmitStep(id) /\ ~LeavesOpen(id)]_vars

\* C16 amended: a caller of zio_resume_wait() returns from it only with the
\* pool not suspended, and the pool leaves the suspended state only in
\* zio_resume(); zio_wait() and zio_nowait() do not look at the pool's state.
C16_ResumeWaitBlocks ==
    /\ [][\A t \in Threads :
            Running(t, "zio_resume_wait") /\ stack'[t] # stack[t] =>
                ~spa_suspended /\ ~spa_suspended']_vars
    /\ [][spa_suspended /\ ~spa_suspended' =>
            \E t \in Threads : Idle(t) /\ Running(t, "zio_reexecute")']_vars

\* The pool is suspended with a write kept under the suspend root, and a
\* caller sleeps in zio_resume_wait().
C16_Witness ==
    /\ spa_suspended /\ Running("caller", "zio_resume_wait")
    /\ \E id \in CallerIds :
          /\ Marked(zio, id) /\ zio[id].io_type = "WRITE"
          /\ zio[id].io_parent_list = spa_suspend_zio_root

\* Thread t takes a step of zio_deadman(): the call from zio_wait(), a lock
\* of the walk, or a step of the loop over the children.
DeadmanStep(t) ==
    /\ stack'[t] # stack[t]
    /\ \/ Running(t, "wait") /\ Running(t, "deadman_lock")'
       \/ Running(t, "deadman_lock")
       \/ Running(t, "deadman_walk")
\* What the pipeline goes by: errors, stages, pipelines, task queues, device.
SameCourse(id) ==
    /\ zio'[id].alive = zio[id].alive
    /\ zio[id].alive =>
          /\ zio'[id].io_error = zio[id].io_error
          /\ zio'[id].io_stage = zio[id].io_stage
          /\ zio'[id].io_pipeline = zio[id].io_pipeline
          /\ zio'[id].io_executor = zio[id].io_executor
\* A leaf zio the device holds, with no task pending for it.
HungLeaf(id) ==
    /\ zio[id].alive /\ zio[id].io_vd /\ zio[id].io_child_list = <<>>
    /\ zio[id].io_queue_state = "ACTIVE"
    /\ ~\E e \in taskq : e[3] = id

Front(p) == SubSeq(p, 1, Len(p) - 1)
\* The block pointer at p as the assembled tree has it: "gang", "data",
\* "hole", or "none" where the tree has no such slot.
BpKind(G, p) ==
    IF p = <<>> THEN "gang"
    ELSE IF Assembled(G, Front(p)) THEN G.gn[Front(p)][p[Len(p)]]
    ELSE "none"
\* Every gang block pointer of the tree has its header read, at every level.
GangTreeComplete(G) ==
    \A p \in HeaderPaths : BpKind(G, p) = "gang" => Assembled(G, p)
\* zio_gang_issue() invokes the callbacks in this step.
GangIssueStep == call.issued = <<>> /\ call'.issued # <<>>
GangTreeFreed(G) == \A p \in HeaderPaths : G.gn[p] = NoNode

\* C18: when the issue callbacks are invoked no gang header read is in
\* flight, none has failed and the tree holds the header of every gang block
\* pointer at every level; and a gang leader that has seen a header read fail
\* has invoked no callback and ends GANG_ISSUE with its tree freed.
C18_IssueAfterAssembly ==
    /\ [][GangIssueStep =>
            /\ call.reads = {} /\ call.io_children = 0
            /\ call.io_child_error = E0
            /\ GangTreeComplete(call)]_vars
    /\ [](call.issued # <<>> => call.reads = {} /\ call.io_child_error = E0)
    /\ [](call.io_child_error # E0 =>
            /\ call.issued = <<>>
            /\ call.io_stage = "DONE" => GangTreeFreed(call))

\* A tree with two nested gang headers has been issued.
C18_Witness ==
    /\ call.issued # <<>>
    /\ \E g \in 1..gbh_nblkptrs, k \in 1..gbh_nblkptrs :
          g # k /\ Assembled(call, <<g>>) /\ Assembled(call, <<k>>)

Visits(G, p) == Cardinality({i \in 1..Len(G.issued) : G.issued[i].bp = p})
DataMembers(G) == {p \in GangPaths : BpKind(G, p) = "data"}

\* C19: a free issued over an assembled gang tree has invoked the free
\* callback once on the leader's block pointer, once on every nested gang
\* header and once on every data member, and on nothing else.
C19_FreeVisitsOnce ==
    (call.io_type = "FREE" /\ call.issued # <<>>) =>
        /\ \A p \in GangPaths :
              Visits(call, p) = IF BpKind(call, p) \in {"gang", "data"} THEN 1 ELSE 0
        /\ \A i \in 1..Len(call.issued) : call.issued[i].func = "FREE"

\* Five data members over two levels of gang headers have been freed.
C19_Witness ==
    /\ call.io_type = "FREE" /\ call.issued # <<>>
    /\ Cardinality(DataMembers(call)) = 5
    /\ \E g \in 1..gbh_nblkptrs : Assembled(call, <<g>>)
    /\ \E p \in GangPaths : BpKind(call, p) = "hole"

\* C20: when an allocating gang write finishes at the gang leader with an
\* error or with a reexecute or suspend mark, every block that was allocated
\* for the leader's header, the nested headers and the members has been
\* returned to free space exactly once and the tree is released; no block is
\* ever freed that was not allocated, and none before the leader is done.
GangWriteFailed ==
    /\ call.io[<<>>].io_stage = "DONE"
    /\ \/ call.io[<<>>].io_error # E0
       \/ call.io_post \cap {"REEXECUTE", "SUSPEND"} # {}
C20_FailedGangWriteFreesAll ==
    /\ \A p \in GangPaths : call.nfree[p] <= call.nalloc[p]
    /\ (\E p \in GangPaths : call.nfree[p] > 0) => GangWriteFailed
    /\ GangWriteFailed =>
          /\ \A p \in GangPaths :
                call.space[p] = "free" /\ call.nfree[p] = call.nalloc[p]
          /\ \A p \in HeaderPaths : call.gn[p] = NoNode
\* A failed gang write two headers deep with a preallocated member, all freed.
C20_Witness ==
    /\ GangWriteFailed
    /\ call.nfree[<<>>] = 1
    /\ call.nfree[<<1>>] = 1
    /\ call.hdr[<<1>>].io_stage = "DONE"
    /\ \E g \in 1..gbh_nblkptrs :
          call.io[<<1, g>>].prealloc /\ call.nfree[<<1, g>>] = 1
    /\ \E g \in 2..gbh_nblkptrs :
          call.io[<<g>>].prealloc /\ call.nfree[<<g>>] = 1

\* C21 as stated: two dedup writes of the same content against an entry
\* without DVAs or references, with no other write arriving, once both are
\* done: exactly one child write was issued and the entry has exactly 2
\* references, whatever the order of their steps.
DdtPhysicalWrites ==
    Cardinality({j \in DedupIds : call.cio[j].io_stage # "NONE"})
DdtNoError == \A j \in DedupIds : call.cio[j].io_error = E0
TwoWriters(a, b) ==
    /\ a # b
    /\ call.prior = 0
    /\ \A c \in DedupIds \ {a, b} : call.io[c].io_stage = "OPEN"
OnlyWriters(a, b) ==
    TwoWriters(a, b) /\ call.io[a].zp_copies = call.io[b].zp_copies
DdtWriteStep(i) ==
    call.io[i].io_stage = "OPEN" /\ call'.io[i].io_stage = "DDT_WRITE"
DdtInFlight(D) == {j \in DedupIds : D.cio[j].io_stage \in {"OPEN", "READY"}}
RECURSIVE DdtPending(_, _)
DdtPending(D, S) ==
    IF S = {} THEN 0
    ELSE LET k == CHOOSE x \in S : TRUE
         IN  D.cio[k].zp_copies + DdtPending(D, S \ {k})
LeadSupplies(D) ==
    Len(D.dde_phys)
        + DdtPending(D, {j \in DedupIds : D.cio[j].io_stage = "OPEN"})
C22_JoinsLead ==
    [][\A i \in DedupIds :
          (/\ DdtWriteStep(i)
           /\ call.dde_lead_zio # <<>>
           /\ DdtNoError
           /\ LeadSupplies(call) >= call.io[i].zp_copies)
          => /\ call'.cio[i].io_stage = "NONE"
             /\ InList(call'.cio[call.dde_lead_zio[1]].io_parent_list,
                       <<"L", i>>)]_vars

\* C23: a dedup write that runs its DDT_WRITE stage while a lead write is in
\* flight and the entry holds fewer copies than it asks for compares its
\* request with the highest copy count asked for by the writes chained on the
\* writes in flight.
DdtChained(D) ==
    {k \in DedupIds : \E j \in DdtInFlight(D) :
                         InList(D.cio[j].io_parent_list, <<"L", k>>)}
C23_ComparesHighest ==
    [][\A i \in DedupIds :
          (/\ DdtWriteStep(i)
           /\ call.dde_lead_zio # <<>>
           /\ Len(call.dde_phys) < call.io[i].zp_copies)
          => call'.io[i].parent_dvas =
                <<Max({call.io[k].zp_copies : k \in DdtChained(call)})>>]_vars

\* C24: when a child write of a dedup write fails, the DVAs of the entry are
\* again those known good (the ones it held before any write and the ones of
\* the child writes that are done without an error) and no reference is
\* added.
DdtChildFails(j) ==
    /\ call.cio[j].io_stage = "READY"
    /\ call'.cio[j].io_stage = "DONE"
    /\ call'.cio[j].io_error # E0
DvasOf(D, o) == Cardinality({n \in 1..Len(D.dde_phys) : D.dde_phys[n] = o})
KnownGood(D, o) ==
    IF o = 0 THEN D.prior
    ELSE IF D.cio[o].io_stage = "DONE" /\ D.cio[o].io_error = E0
    THEN D.cio[o].zp_copies ELSE 0
C24_RevertsToKnownGood ==
    [][\A j \in DedupIds :
          DdtChildFails(j) =>
             /\ \A o \in 0..MaxDedup : DvasOf(call', o) = KnownGood(call', o)
             /\ call'.refcnt = call.refcnt]_vars

\* C25: of the throttled writes that reached their throttle stage, each one
\* that holds no reservation and is with no thread and in no task queue is in
\* the queue of its class; a write enters and leaves the queue of a class at
\* most once, is in it exactly between the two, leaves it only with a
\* reservation of that class (the reservations of a class are those of the
\* writes that left its queue and have not given them back, never more than
\* the limit), is with at most one thread, and runs its allocation stage at
\* most once for each time it left a queue.
ThrottleHolds(D, i) ==
    /\ "ALLOC_THROTTLED" \in D.z[i].io_flags
    /\ D.z[i].io_error = E0 \/ D.z[i].io_stage <= ZIO_STAGE_DVA_ALLOCATE
    /\ D.z[i].io_stage >= ZIO_STAGE_DVA_THROTTLE
    /\ D.z[i].io_stage < ZIO_STAGE_DONE
    /\ D.z[ThrottleChild(i)].io_stage # ZIO_STAGE_DONE
ThrottleQueued(D, i) ==
    /\ D.z[i].io_stage = ZIO_STAGE_DVA_THROTTLE
    /\ D.exec[i] = 0
    /\ <<"ISSUE", "zio_execute", i>> \notin D.tq
C25_QueuedUntilReserved ==
    /\ \A i \in ThrottleIds :
          /\ ThrottleQueued(call, i) =>
                i \in call.mc[call.z[i].io_metaslab_class].mca_tree
          /\ call.exec[i] <= 1
          /\ call.exec[i] = 1 => <<"ISSUE", "zio_execute", i>> \notin call.tq
          /\ \A mc \in Classes :
                /\ call.enq[i][mc] <= 1
                /\ call.deq[i][mc] <= call.enq[i][mc]
                /\ i \in call.mc[mc].mca_tree <=>
                      call.deq[i][mc] < call.enq[i][mc]
                /\ i \in call.mc[mc].mca_tree =>
                      (ThrottleQueued(call, i) /\ ~ThrottleHolds(call, i))
                /\ call.allocs[i][mc] <= call.deq[i][mc]
    /\ \A mc \in Classes :
          /\ call.mc[mc].mca_reserved <= MaxSlots
          /\ call.mc[mc].mca_reserved =
                Cardinality({i \in ThrottleIds :
                                /\ ThrottleHolds(call, i)
                                /\ call.z[i].io_metaslab_class = mc})
\* More writes than slots were queued, and every one has left the queue with
\* a reservation and allocated once.
C25_Witness ==
    /\ \A i \in ThrottleIds :
          /\ call.deq[i]["special"] = 1
          /\ call.allocs[i]["special"] = 1
          /\ call.z[i].io_stage = ZIO_STAGE_DONE
          /\ call.z[i].io_error = E0
    /\ call.mc["special"].mca_reserved = 0

\* C26: when the vdev child of a throttled write completes and gives its slot
\* back while writes are queued, the head of the queue leaves it and is
\* dispatched to the issue taskq; and every write in a queue runs its
\* allocation stage in the end, the threads, the taskq workers and the
\* device being fair.
ThrottleCompletes(i) ==
    /\ call.z[ThrottleChild(i)].io_stage = ZIO_STAGE_VDEV_IO_START
    /\ call'.z[ThrottleChild(i)].io_stage = ZIO_STAGE_DONE
    /\ "ALLOC_THROTTLED" \in call.z[ThrottleChild(i)].io_flags
ThrottleHead(D, mc) == Min(D.mc[mc].mca_tree)
C26_QueuedEventuallyAllocates ==
    /\ [][\A i \in ThrottleIds :
             LET mc == call.z[i].io_metaslab_class
             IN  (ThrottleCompletes(i) /\ call.mc[mc].mca_tree # {}) =>
                    /\ ThrottleHead(call, mc) \notin call'.mc[mc].mca_tree
                    /\ <<"ISSUE", "zio_execute", ThrottleHead(call, mc)>>
                          \in call'.tq]_vars
    /\ \A i \in ThrottleIds : \A mc \in Classes :
          (i \in call.mc[mc].mca_tree) ~> (call.allocs[i][mc] = 1)
\* The first write is complete, the second was taken from the queue and
\* dispatched, the third is still queued.
C26_Witness ==
    \E i, j, k \in ThrottleIds :
        /\ call.z[ThrottleChild(i)].io_stage = ZIO_STAGE_DONE
        /\ <<"ISSUE", "zio_execute", j>> \in call.tq
        /\ call.deq[j]["special"] = 1 /\ call.allocs[j]["special"] = 0
        /\ k \in call.mc["special"].mca_tree

\* C27 as stated: a write whose checksum equals that of the old block
\* pointer, with the same checksum algorithm, compression and number of
\* copies, leaves the nop-write stage with the old block pointer as its own
\* and without its allocation and vdev stages; when one of the four differs
\* its block pointer is unchanged and the allocation stage is still in its
\* pipeline.
NopSameSettings(Zr) ==
    /\ Zr.io_bp.blk_cksum = Zr.io_bp_orig.blk_cksum
    /\ Zr.io_bp.checksum = Zr.io_bp_orig.checksum
    /\ Zr.io_bp.compress = Zr.io_bp_orig.compress
    /\ Zr.io_prop.zp_copies = BP_GET_NDVAS(Zr.io_bp_orig)
NopReused(Zr) ==
    /\ Zr.io_bp = Zr.io_bp_orig
    /\ ZIO_STAGE_DVA_ALLOCATE \notin Zr.io_pipeline
    /\ Zr.io_pipeline \cap ZIO_VDEV_IO_STAGES = {}
NopNotReused(Zin, Zr) ==
    /\ Zr.io_bp = Zin.io_bp
    /\ "NOPWRITE" \notin Zr.io_flags
    /\ ZIO_STAGE_DVA_ALLOCATE \in Zr.io_pipeline
NopEligible(Zr) ==
    /\ NopSameSettings(Zr)
    /\ ~Zr.io_bp.encrypted /\ ~Zr.io_bp_orig.encrypted
    /\ Zr.io_bp.dedup = Zr.io_bp_orig.dedup
    /\ \A d \in 1..BP_GET_NDVAS(Zr.io_bp_orig) :
          Zr.io_bp_orig.blk_dva[d] # "indirect"
DioFailed(id) == zio[id].alive /\ "DIO_CHKSUM_ERR" \in zio[id].io_post
C28_DioErrorNotReissued ==
    [][\A id \in CallerIds :
          DioFailed(id) =>
             /\ zio[id].io_type = "WRITE" /\ zio[id].io_prop.zp_direct_write
             /\ ~zio'[VdevOf(id)].alive
             /\ VdevOf(id) \notin device'
             /\ ~spa_suspended'
             /\ IF zio'[id].alive
                THEN /\ zio'[id].io_flags = zio[id].io_flags
                     /\ zio'[id].io_post \cap {"REEXECUTE", "SUSPEND"} = {}
                     /\ zio'[id].runs = zio[id].runs
                     /\ zio'[id].io_stage >= zio[id].io_stage
                     /\ zio'[id].io_stage >= ZIO_STAGE_VDEV_IO_ASSESS
                           => zio'[id].io_error = "EIO"
                ELSE /\ wait_result'[id] # <<>>
                     /\ wait_result'[id].error = "EIO"]_vars
\* The write is done with EIO and the mark, its waiter about to return.
C28_Witness ==
    \E id \in CallerIds :
        /\ DioFailed(id)
        /\ zio[id].io_stage = ZIO_STAGE_DONE
        /\ zio[id].io_error = "EIO"
        /\ zio[id].io_executor = NoThread
        /\ zio[id].runs = 1
        /\ "IO_RETRY" \notin zio[id].io_flags

\* ------------------------------------------------------------------- C29
\* The zios a thread, a taskq entry or a device request refers to.
Referenced ==
    {id \in AllIds : \E t \in Threads : \E i \in 1..Len(stack[t]) :
        stack[t][i].z = id}
    \cup {e[3] : e \in taskq} \cup device
\* id is destroyed in this step.
Destroyed(id) == zio[id].alive /\ ~zio'[id].alive
\* The waiter of id returns from zio_wait(id) in this step.
WaiterReturns(id) ==
    LET t == zio[id].io_waiter
    IN  /\ Running(t, "wait") /\ Top(t).z = id
        /\ stack'[t] = Tail(stack[t])
\* A thread runs the DONE stage of id in this step and lets go of it.
DispatcherDone(id) ==
    \E t \in Threads :
        /\ Running(t, "exec") /\ Top(t).z = id
        /\ \A i \in 1..Len(stack'[t]) : stack'[t][i].z # id

\* C29: every zio is destroyed once and only once it has completed: by its
\* waiter in zio_wait() when it has one, else by the thread that runs its
\* DONE stage; a zio marked for reexecution or suspension is not destroyed;
\* and no thread, taskq entry or device request refers to a zio that was
\* destroyed.
C29_DestroyedOnce ==
    /\ [](\A id \in Referenced : zio[id].alive)
    /\ [][\A id \in AllIds :
            /\ Destroyed(id) =>
                  /\ zio[id].io_post \cap Marks = {}
                  /\ zio[id].io_child_list = <<>>
                  /\ IF zio[id].io_waiter # NoThread
                     THEN /\ WaiterReturns(id)
                          /\ zio[id].io_state["DONE"]
                          /\ zio[id].io_executor = NoThread
                     ELSE /\ DispatcherDone(id)
                          /\ ~zio[id].io_state["DONE"]
            /\ DoneStep(id) /\ zio'[id].alive =>
                  \/ zio'[id].io_post \cap Marks # {}
                  \/ /\ zio'[id].io_waiter # NoThread
                     /\ zio'[id].io_executor = NoThread
                     /\ \E i \in 1..Len(stack'[zio'[id].io_waiter]) :
                           /\ stack'[zio'[id].io_waiter][i].op = "wait"
                           /\ stack'[zio'[id].io_waiter][i].z = id]_vars

\* ------------------------------------------------------------------- C30
\* The stage the loop of __zio_execute() selects for a zio.
NextStage(Zr) == Min({s \in Zr.io_pipeline : s > Zr.io_stage})
\* id stalls on a child counter in this step.
StallsHere(id) ==
    /\ zio[id].alive /\ zio'[id].alive
    /\ zio[id].io_stall = <<>> /\ zio'[id].io_stall # <<>>
\* The counter a zio is stalled on.
StallCounter(Zr) == Zr.io_children[Zr.io_stall[1]][Zr.io_stall[2]]

\* C30: a zio that stalls in the handler of a stage is left one stage
\* position below that stage with the outstanding counter as its stall, and
\* stays so until it is dispatched again, when the loop selects the stage
\* that stalled; a zio is stalled only on a counter that is not zero, and
\* with all its counters zero the READY and DONE stages the loop runs go
\* through with the stage where the loop put it and no stall.
C30_StallRerunsStage ==
    /\ [](\A id \in AllIds :
            zio[id].alive /\ zio[id].io_stall # <<>> =>
                /\ StallCounter(zio[id]) # 0
                /\ zio[id].io_stage + 1 \in zio[id].io_pipeline)
    /\ [][\A id \in AllIds :
            /\ StallsHere(id) =>
                  /\ zio'[id].io_stage = NextStage(zio[id]) - 1
                  /\ NextStage(zio'[id]) = NextStage(zio[id])
                  /\ zio[id].io_children[zio'[id].io_stall[1]]
                                        [zio'[id].io_stall[2]] # 0
            /\ (zio[id].alive /\ zio[id].io_stall # <<>> /\ zio'[id].alive) =>
                  /\ zio'[id].io_stage = zio[id].io_stage
                  /\ zio'[id].io_pipeline = zio[id].io_pipeline
            /\ (/\ zio[id].alive /\ zio'[id].alive /\ zio[id].io_children = NoChildren
                /\ zio[id].io_stage < ZIO_STAGE_DONE
                /\ \E t \in Threads : Running(t, "exec") /\ Top(t).z = id
                /\ NextStage(zio[id]) \in {ZIO_STAGE_READY, ZIO_STAGE_DONE}
                /\ zio'[id].io_stage # zio[id].io_stage) =>
                  /\ zio'[id].io_stage = NextStage(zio[id])
                  /\ zio'[id].io_stall = <<>>]_vars

\* A read has stalled in its VDEV_IO_DONE stage on its vdev child, which is
\* still in flight: it is one stage position below VDEV_IO_DONE.
C30_Witness ==
    \E id \in CallerIds :
        /\ zio[id].alive /\ zio[id].io_stall # <<>>
        /\ zio[id].io_stall = <<"VDEV", "DONE">>
        /\ zio[id].io_stage = ZIO_STAGE_VDEV_IO_DONE - 1
        /\ zio[VdevOf(id)].alive

\* ------------------------------------------------------------------- C31
\* The threads running the stages of id and the taskq entries pending for it.
RunHolders(id) ==
    Cardinality(Executors(id)) + Cardinality({e \in taskq : e[3] = id})
\* The counter of p for children of type c and milestone w reaches zero in
\* this step.
CounterHitsZero(p, c, w) ==
    /\ zio[p].alive /\ zio'[p].alive /\ zio'[p].runs = zio[p].runs
    /\ zio[p].io_children[c][w] > 0 /\ zio'[p].io_children[c][w] = 0

\* C31: the notification that brings the counter a parent is stalled on to
\* zero clears the stall and hands the parent to exactly one thread or taskq
\* entry, the parent having none before; a stall is cleared by nothing else;
\* and a notification that brings a counter to zero while the parent is not
\* stalled on that counter leaves the stall and the parent's holders as they
\* are.
C31_ResumedOnce ==
    [][\A p \in AllIds :
        /\ \A c \in ChildTypes, w \in WaitTypes :
              CounterHitsZero(p, c, w) =>
                 IF zio[p].io_stall = <<c, w>>
                 THEN /\ zio'[p].io_stall = <<>>
                      /\ RunHolders(p) = 0
                      /\ RunHolders(p)' = 1
                 ELSE /\ zio'[p].io_stall = zio[p].io_stall
                      /\ RunHolders(p)' = RunHolders(p)
        /\ (/\ zio[p].alive /\ zio'[p].alive
            /\ zio[p].io_stall # <<>> /\ zio'[p].io_stall = <<>>) =>
              /\ CounterHitsZero(p, zio[p].io_stall[1], zio[p].io_stall[2])
        /\ (zio[p].alive /\ zio[p].io_stall # <<>> /\ zio'[p].alive
                /\ zio'[p].io_stall # <<>>) =>
              /\ RunHolders(p)' = 0
              /\ StallCounter(zio'[p]) > 0]_vars

\* A read stalled on its vdev child has been handed to the interrupt worker
\* that ran the child's DONE stage.
C31_Witness ==
    \E p \in CallerIds :
        /\ zio[p].alive /\ zio[p].io_stall = <<>>
        /\ zio[p].io_stage = ZIO_STAGE_VDEV_IO_DONE - 1
        /\ ~zio[VdevOf(p)].alive
        /\ Running("intr", "exec") /\ Top("intr").z = p
        /\ RunHolders(p) = 1

\* ------------------------------------------------------------------- C32
\* c notifies p of milestone w in this step.
Notifies(p, c, w) ==
    /\ zio[p].alive /\ zio'[p].alive /\ zio[c].alive
    /\ zio'[p].runs = zio[p].runs
    /\ zio'[p].notified_by[c][w] = zio[p].notified_by[c][w] + 1
\* The error and the flags c notifies with: those it is left with, or, when
\* it is destroyed in the step, the error its DONE stage ends with.
NotifiedError(c) ==
    IF zio'[c].alive THEN zio'[c].io_error ELSE FinalError(c)
NotifiedFlags(c) ==
    IF zio'[c].alive THEN zio'[c].io_flags ELSE zio[c].io_flags

\* C32: when a child notifies a parent without the do-not-propagate flag the
\* parent's child error of the child's type becomes one of its previous value
\* and the child's error, of the higher rank of the two; with the flag the
\* parent's child errors are unchanged; the child errors of other types are
\* unchanged either way; and a child that is marked for reexecution or
\* suspension notifies a parent that is no godfather with the flag set.
C32_WorstUnlessDontPropagate ==
    [][\A p, c \in AllIds : \A w \in WaitTypes :
        Notifies(p, c, w) =>
            LET k == zio[c].io_child_type
                old == zio[p].io_child_error
                new == zio'[p].io_child_error
                e == NotifiedError(c)
            IN  /\ \A j \in ChildTypes \ {k} : new[j] = old[j]
                /\ IF "DONT_PROPAGATE" \in NotifiedFlags(c)
                   THEN new[k] = old[k]
                   ELSE /\ new[k] \in {old[k], e}
                        /\ ErrorRank(new[k]) =
                              Max({ErrorRank(old[k]), ErrorRank(e)})
                /\ (/\ zio'[c].alive /\ zio'[c].io_post \cap Marks # {}
                    /\ "GODFATHER" \notin zio[p].io_flags) =>
                      "DONT_PROPAGATE" \in zio'[c].io_flags]_vars

\* A child that failed and is marked for reexecution or suspension has
\* notified its parent with the do-not-propagate flag: the parent's child
\* error is still 0.
C32_Witness ==
    \E p, c \in CallerIds :
        /\ zio[p].alive /\ zio[c].alive /\ p # c
        /\ zio[p].notified_by[c]["DONE"] = 1
        /\ zio[c].io_post \cap Marks # {}
        /\ "DONT_PROPAGATE" \in zio[c].io_flags
        /\ zio[c].io_error # E0
        /\ zio[p].io_child_error["LOGICAL"] = E0

\* ------------------------------------------------------------------- C33
\* zio_reexecute() resets id in this step.
ResetHere(id) ==
    zio[id].alive /\ zio'[id].alive /\ zio'[id].runs = zio[id].runs + 1
\* id is as zio_create() left it, but for its flags.
AsCreated(Zr) ==
    /\ Zr.io_stage = Zr.io_orig_stage /\ Zr.io_stage = ZIO_STAGE_OPEN
    /\ Zr.io_pipeline = Zr.io_orig_pipeline
    /\ Zr.io_error = E0 /\ Zr.io_child_error = NoChildError
    /\ Zr.io_post = {}
    /\ Zr.io_state = InitialState(Zr.io_orig_stage, Zr.io_orig_pipeline)
\* The counters of the parents of id go up by the milestones id has lost.
ParentsRecount(id) ==
    \A g \in AllIds : InList(zio[id].io_parent_list, g) =>
        \A w \in WaitTypes :
            zio'[g].io_children[zio[id].io_child_type][w] =
                zio[g].io_children[zio[id].io_child_type][w]
                + (IF zio'[id].io_state[w] THEN 0 ELSE 1)
\* The walk of zio_reexecute(p) over p's children ends in this step of t.
WalkEnds(t, p) ==
    /\ Running(t, "reexec") /\ Top(t).z = p /\ Top(t).cur = <<>>
    /\ stack'[t] # stack[t]
\* Some thread runs the stages of id, or a taskq entry is pending for it.
IsRun(id) ==
    \/ \E e \in taskq : e[3] = id /\ e[2] = "zio_execute"
    \/ \E t \in Threads : \E i \in 1..Len(stack[t]) :
          stack[t][i].z = id /\ stack[t][i].op = "exec"
\* What reexecution does besides the flags: the reset, the recount, and the
\* order of the walk: while zio_reexecute(p) walks p's children p is reset and
\* not run; when the walk ends every child on p's list has been reset as
\* often as p (a godfather's children: at least once), and p is run then
\* unless it is a godfather.
ReexecuteResets(id) ==
    /\ ResetHere(id) =>
          /\ AsCreated(zio'[id])
          /\ ParentsRecount(id)
          /\ zio[id].io_child_type = "LOGICAL"
    /\ \A t \in Threads :
          /\ (\E i \in 1..Len(stack[t]) :
                 stack[t][i].z = id /\ stack[t][i].op = "reexec") =>
                /\ zio[id].alive /\ ~IsRun(id)
                /\ zio[id].io_stage = ZIO_STAGE_OPEN
          /\ WalkEnds(t, id) =>
                /\ \A k \in AllIds : InList(zio[id].io_child_list, k) =>
                      /\ "REEXECUTED" \in zio[k].io_flags
                      /\ "GODFATHER" \notin zio[id].io_flags =>
                            zio[k].runs = zio[id].runs
                /\ IF "GODFATHER" \in zio[id].io_flags
                   THEN stack'[t] = Tail(stack[t]) /\ zio' = zio
                   ELSE /\ Head(stack'[t]) = Frame("exec", id, <<>>)
                        /\ zio'[id].io_queued_timestamp

\* C33 as stated: a reexecuted zio has the stage, pipeline and flags it was
\* created with, no error and no child error, its milestones as at creation,
\* and its parents' counters raised for each milestone it no longer holds;
\* its children are reset and run before it is run again, and a godfather is
\* reset but not run.
C33_ResetToCreation ==
    [][\A id \in AllIds :
        /\ ReexecuteResets(id)
        /\ ResetHere(id) => zio'[id].io_flags = zio[id].io_orig_flags]_vars

\* C33 amended: the same, the flags being those of creation with the
\* reexecuted flag added.
C33_ResetToCreationReexecuted ==
    [][\A id \in AllIds :
        /\ ReexecuteResets(id)
        /\ ResetHere(id) =>
              zio'[id].io_flags = zio[id].io_orig_flags \cup {"REEXECUTED"}]_vars

\* A parent is run again after its child, which failed, was reset and run:
\* both are in their second run, the child with the parent's counters raised.
C33_Witness ==
    \E p, k \in CallerIds :
        /\ zio[p].alive /\ zio[k].alive /\ InList(zio[p].io_child_list, k)
        /\ zio[p].runs = 2 /\ zio[k].runs = 2
        /\ \E t \in Threads : Running(t, "exec") /\ Top(t).z = p
        /\ zio[p].io_stage = ZIO_STAGE_OPEN
        /\ zio[p].io_error = E0 /\ zio[p].io_child_error = NoChildError
        /\ "REEXECUTED" \in zio[p].io_flags

\* ------------------------------------------------------------------- C34
\* The members of a list.
ListSet(l) == {l[i] : i \in 1..Len(l)}
\* A zio is linked to WalkZio in this step.
WalkLinks(id) ==
    /\ ~call.z[id].alive /\ call'.z[id].alive
WalkList(Z) ==
    IF call.kind = "ready" THEN Z[WalkZio].io_parent_list
    ELSE Z[WalkZio].io_child_list

\* C34: a new link goes to the head of the parent's child list and of the
\* child's parent list; a walk never visits a zio linked after it started
\* and visits every zio that was on the list when it started; a child
\* created while the children of its parent are reexecuted is not
\* reexecuted by that walk; and a parent added while a zio notifies its
\* parents of READY is not notified by that walk and was not counted for
\* READY.
C34_WalkSkipsNewEdges ==
    /\ [](/\ call.visited \cap call.added = {}
          /\ call.visited \subseteq ListSet(call.start)
          /\ call.phase = "after" => call.visited = ListSet(call.start)
          /\ \A id \in call.added :
                IF call.kind = "ready"
                THEN /\ call.z[id].io_children["LOGICAL"]["READY"] = 0
                     /\ call.z[id].io_children["LOGICAL"]["DONE"] = 1
                     /\ call.z[id].notified_by[WalkZio]["READY"] = 0
                ELSE /\ call.z[id].runs = 1
                     /\ "REEXECUTED" \notin call.z[id].io_flags)
    /\ [][\A id \in WalkOthers :
            WalkLinks(id) =>
                /\ Head(WalkList(call'.z)) = id
                /\ Tail(WalkList(call'.z)) = WalkList(call.z)
                /\ IF call.kind = "ready"
                   THEN call'.z[id].io_child_list = <<WalkZio>>
                   ELSE call'.z[id].io_parent_list = <<WalkZio>>]_vars

\* A walk over two zios has ended after two more were linked during it.
C34_Witness ==
    /\ call.phase = "after"
    /\ Cardinality(call.added) = 2
    /\ Cardinality(call.visited) = 2
    /\ Len(WalkList(call.z)) = 4

\* ------------------------------------------------------------------- C35
\* The copies write i has reserved and not given back: all of them from the
\* reservation until its children are issued, then one for each child that
\* took part in the accounting and is not done.
ReservedBy(D, i) ==
    IF "ALLOC_THROTTLED" \notin D.z[i].io_flags THEN 0
    ELSE IF \/ D.z[i].io_stage < ZIO_STAGE_READY
            \/ /\ D.z[i].io_stage = ZIO_STAGE_READY
               /\ "IO_RETRY" \notin D.z[i].io_flags
    THEN zp_copies(D.z[i])
    ELSE Cardinality({cio \in ReserveChildren(D, i) :
                         /\ D.z[cio].alive
                         /\ "ALLOC_THROTTLED" \in D.z[cio].io_flags
                         /\ D.z[cio].io_stage # ZIO_STAGE_DONE})
RECURSIVE SumOutstanding(_, _)
SumOutstanding(D, S) ==
    IF S = {} THEN 0
    ELSE LET i == CHOOSE k \in S : TRUE
         IN  ReservedBy(D, i) + SumOutstanding(D, S \ {i})

\* C35: the copies reserved in a class are those of the throttled writes of
\* the class that have reserved and have not yet failed in READY or fallen
\* back to another class, less one for each of their vdev children that is
\* done; the count is never negative, and it is zero once every write is
\* done.
C35_ReservationsBalance ==
    /\ \A mc \in Classes :
          /\ call.mc[mc].mca_reserved >= 0
          /\ call.mc[mc].mca_reserved =
                SumOutstanding(call, {i \in ThrottleIds :
                                        call.z[i].io_metaslab_class = mc})
    /\ (\A i \in ThrottleIds : call.z[i].io_stage = ZIO_STAGE_DONE) =>
          \A mc \in Classes : call.mc[mc].mca_reserved = 0

\* Every write is done and nothing is reserved: one write of two copies
\* wrote both, one failed in READY holding two copies, and one fell back to
\* the normal class.
C35_Witness ==
    /\ \A i \in ThrottleIds :
          /\ call.z[i].io_stage = ZIO_STAGE_DONE
          /\ zp_copies(call.z[i]) = 2
    /\ \A mc \in Classes : call.mc[mc].mca_reserved = 0
    /\ \E i \in ThrottleIds :
          /\ call.z[i].io_error = E0
          /\ \A cio \in ReserveChildren(call, i) :
                /\ call.z[cio].io_stage = ZIO_STAGE_DONE
                /\ "ALLOC_THROTTLED" \in call.z[cio].io_flags
    /\ \E i \in ThrottleIds :
          /\ call.z[i].io_error = "ENOSPC"
          /\ "ALLOC_THROTTLED" \in call.z[i].io_flags
          /\ \A cio \in ReserveChildren(call, i) : ~call.z[cio].alive
    /\ \E i \in ThrottleIds : call.z[i].io_metaslab_class = "normal"

\* ------------------------------------------------------------------- C36
\* The VDEV_IO_ASSESS stage of id runs in this step with no vdev child
\* outstanding.
AssessRuns(id) ==
    /\ zio[id].alive /\ ~Stale(id)
    /\ \E t \in Threads : Running(t, "exec") /\ Top(t).z = id
    /\ NextStage(zio[id]) = ZIO_STAGE_VDEV_IO_ASSESS
    /\ WaitChild(zio[id], {"VDEV"}, "DONE") = <<>>
    /\ zio'[id].io_stage # zio[id].io_stage
\* id is retried in place in this step.
RetriedInPlace(id) ==
    /\ zio'[id].alive
    /\ zio'[id].io_error = E0
    /\ "IO_RETRY" \in zio'[id].io_flags
    /\ zio'[id].io_stage = ZIO_STAGE_VDEV_IO_START - 1
    /\ <<"ISSUE", "zio_execute", id>> \in taskq' \ taskq
    /\ \A t \in Threads :
          \/ stack'[t] = <<>>
          \/ Head(stack'[t]).op # "exec" \/ Head(stack'[t]).z # id
\* id goes on from VDEV_IO_ASSESS with its flags and error as they are.
NotRetried(id) ==
    /\ zio'[id].io_stage = ZIO_STAGE_VDEV_IO_ASSESS
    /\ zio'[id].io_flags = zio[id].io_flags
    /\ zio'[id].io_error = zio[id].io_error
    /\ <<"ISSUE", "zio_execute", id>> \notin taskq'
FailedNoFlag(id) ==
    /\ zio[id].io_error # E0
    /\ ~zio[id].io_vd
    /\ zio[id].io_flags \cap {"DONT_RETRY", "IO_RETRY"} = {}
\* The retry flag stays for the rest of the execution.
RetryFlagStays ==
    \A id \in AllIds :
        (zio[id].alive /\ zio'[id].alive
           /\ "IO_RETRY" \in zio[id].io_flags
           /\ zio'[id].runs = zio[id].runs)
        => "IO_RETRY" \in zio'[id].io_flags

\* C36 as stated: a zio with no vdev whose VDEV_IO_ASSESS stage finds an
\* error and neither ZIO_FLAG_DONT_RETRY nor ZIO_FLAG_IO_RETRY is retried in
\* place, any other zio is not, and the retry flag stays for the rest of the
\* execution.
C36_RetryOnce ==
    [][/\ \A id \in AllIds :
            AssessRuns(id) =>
                IF FailedNoFlag(id) THEN RetriedInPlace(id)
                ELSE NotRetried(id)
       /\ RetryFlagStays]_vars

\* C36 amended: the same for a zio that carries no Direct I/O checksum
\* error mark; a zio with the mark is not retried.
C36_RetryOnceUnlessDio ==
    [][/\ \A id \in AllIds :
            AssessRuns(id) =>
                IF FailedNoFlag(id) /\ "DIO_CHKSUM_ERR" \notin zio[id].io_post
                THEN RetriedInPlace(id)
                ELSE NotRetried(id)
       /\ RetryFlagStays]_vars

\* A zio was retried in place, failed again and went on from VDEV_IO_ASSESS
\* with its error.
C36_Witness ==
    \E id \in AllIds :
        /\ zio[id].alive /\ ~zio[id].io_vd
        /\ "IO_RETRY" \in zio[id].io_flags
        /\ zio[id].io_stage = ZIO_STAGE_VDEV_IO_ASSESS
        /\ zio[id].io_error # E0
        /\ zio[id].runs = 1

\* ------------------------------------------------------------------- C37
\* The calls the pushes ask for, last push first.
RECURSIVE UndoCalls(_)
UndoCalls(pushed) ==
    IF pushed = <<>> THEN <<>>
    ELSE LET n == Len(pushed)
             rest == UndoCalls(SubSeq(pushed, 1, n - 1))
         IN  IF pushed[n].transform = "NULL" THEN rest
             ELSE <<<<pushed[n].transform, pushed[n].abd,
                      pushed[n].size>>>> \o rest

\* C37: after zio_pop_transforms() the stack is empty, the buffer and the
\* size of the zio are those it had before the first push, and the callbacks
\* called are those of the pushes in reverse order of the pushes, each with
\* the buffer and the size the zio had just before that push.
C37_PopRestores ==
    call.popped =>
        /\ call.zio.io_transform_stack = <<>>
        /\ call.zio.io_abd = call.first.abd
        /\ call.zio.io_size = call.first.size
        /\ call.zio.called = UndoCalls(call.pushed)

\* Three pushes, two of them with callbacks, have been undone: the callbacks
\* differ and so do the buffers they were called with.
C37_Witness ==
    /\ call.popped
    /\ Len(call.pushed) = MaxPush
    /\ Len(call.zio.called) = 2
    /\ call.zio.called[1][1] # call.zio.called[2][1]
    /\ call.zio.called[1][2] # call.zio.called[2][2]

C39_CompletesCleanOrCanFail ==
    [][\A id \in AllIds :
          (DoneStep(id) /\ Completed(id)) =>
              (FinalError(id) = E0 \/ CanFail(id))]_vars

\* ------------------------------------------------------------------- C40
RECURSIVE SumPsize(_)
SumPsize(members) ==
    IF members = <<>> THEN 0
    ELSE Head(members).psize + SumPsize(Tail(members))

\* C40: while a write is split into gang members, whichever member
\* allocations succeed or fail, no member is larger than the residual it is
\* taken from, the sizes of the members and the residual add up to the size
\* of the write, so that the members add up to it once the loop is left;
\* there are never more members than block pointers in the gang header; and
\* while size is left the divisor of the next member, the block pointers less
\* the members created, is not zero.
C40_GangSizesAddUp ==
    /\ \A i \in 1..Len(call.members) :
          /\ call.members[i].psize <= call.members[i].resid
          /\ call.members[i].psize >= call.members[i].min_size
          /\ call.members[i].divisor # 0
    /\ call.resid >= 0
    /\ SumPsize(call.members) + call.resid = call.io_size
    /\ (call.stage = "INTERLOCK") =>
          (call.resid = 0 /\ SumPsize(call.members) = call.io_size)
    /\ Len(call.members) <= gbh_nblkptrs
    /\ (call.resid # 0) => (gbh_nblkptrs - call.g # 0)

\* A write ganged into as many members as the header has block pointers,
\* some allocated ahead and some not.
C40_Witness ==
    /\ call.stage = "INTERLOCK"
    /\ Len(call.members) = gbh_nblkptrs
    /\ \E i, j \in 1..Len(call.members) :
          call.members[i].allocated /\ ~call.members[j].allocated
    /\ SumPsize(call.members) = call.io_size

====
